---- MODULE Spec2Model ----
(***************************************************************************)
(* Model of the wikijs-linker content engine (popup.js): the Template      *)
(* Renderer (HTML_TEMPLATES), the Structure Analyzer                       *)
(* (WikiStructureAnalyzer), the Content Editor (WikiContentManager) and    *)
(* the read-modify-write page flow of the popup.                           *)
(*                                                                         *)
(* A Document is a string.  JavaScript string positions are 0-based; the   *)
(* string helpers below keep the JavaScript conventions (indexOf returns   *)
(* -1 when there is no occurrence, substring(s, a, b) excludes b).         *)
(***************************************************************************)
EXTENDS Integers, Sequences, FiniteSets, TLC

\* ------------------------------------------------------------------------
\* JavaScript string primitives
\* ------------------------------------------------------------------------

Min(S) == CHOOSE x \in S : \A y \in S : x <= y

Max(S) == CHOOSE x \in S : \A y \in S : x >= y

\* s.charAt(i): the one-character string at 0-based position i, "" outside.
charAt(s, i) == IF i >= 0 /\ i < Len(s) THEN SubSeq(s, i + 1, i + 1) ELSE ""

Clamp(n, len) == IF n < 0 THEN 0 ELSE IF n > len THEN len ELSE n

\* s.substring(a, b): both ends clamped to [0, length], swapped when a > b.
substring(s, a, b) ==
  LET ca == Clamp(a, Len(s))
      cb == Clamp(b, Len(s))
      lo == IF ca <= cb THEN ca ELSE cb
      hi == IF ca <= cb THEN cb ELSE ca
  IN  SubSeq(s, lo + 1, hi)

\* s.substring(a) / s.slice(a) for 0 <= a.
substringFrom(s, a) == substring(s, a, Len(s))

\* s.startsWith(p, i): p occurs in s at 0-based position i.
startsWithAt(s, p, i) ==
  i >= 0 /\ i + Len(p) <= Len(s) /\ SubSeq(s, i + 1, i + Len(p)) = p

\* All 0-based positions at which p occurs in s.
Occurrences(s, p) ==
  LET n == Len(p)
  IN  {i \in 0..(Len(s) - n) : SubSeq(s, i + 1, i + n) = p}

\* s.indexOf(p, from)
indexOfFrom(s, p, from) ==
  LET n    == Len(p)
      hits == {i \in Clamp(from, Len(s))..(Len(s) - n) : SubSeq(s, i + 1, i + n) = p}
  IN  IF hits = {} THEN -1 ELSE Min(hits)

\* s.indexOf(p)
indexOf(s, p) == indexOfFrom(s, p, 0)

\* s.lastIndexOf(p)
lastIndexOf(s, p) ==
  LET hits == Occurrences(s, p)
  IN  IF hits = {} THEN -1 ELSE Max(hits)

\* s.includes(p)
includes(s, p) ==
  LET n == Len(p)
  IN  \E i \in 0..(Len(s) - n) : SubSeq(s, i + 1, i + n) = p

\* s.endsWith(p)
endsWith(s, p) == Len(p) <= Len(s) /\ SubSeq(s, Len(s) - Len(p) + 1, Len(s)) = p

\* s.trim(): s without its leading and trailing white space.
WhiteSpace == {" ", "\n", "\t", "\r", "\f"}

trim(s) ==
  LET solid == {i \in 0..(Len(s) - 1) : charAt(s, i) \notin WhiteSpace}
  IN  IF solid = {} THEN "" ELSE substring(s, Min(solid), Max(solid) + 1)

\* The letters the key derivations of popup.js can produce, paired by case.
LowerLetters == "abcdefghijklmnopqrstuvwxyzäöü"

UpperLetters == "ABCDEFGHIJKLMNOPQRSTUVWXYZÄÖÜ"

Digits == "0123456789"

CharsOf(s) == {charAt(s, i) : i \in 0..(Len(s) - 1)}

\* \d, \w and \s of a JavaScript regular expression without the u flag.
DigitChars == CharsOf(Digits)

WordChars == CharsOf("abcdefghijklmnopqrstuvwxyz") \cup CharsOf("ABCDEFGHIJKLMNOPQRSTUVWXYZ")
               \cup DigitChars \cup {"_"}

\* One character of String.prototype.toUpperCase: the sharp s becomes "SS".
upperChar(c) ==
  IF c = "ß" THEN "SS"
  ELSE IF indexOf(LowerLetters, c) # -1 THEN charAt(UpperLetters, indexOf(LowerLetters, c))
  ELSE c

\* One character of String.prototype.toLowerCase.
lowerChar(c) ==
  IF indexOf(UpperLetters, c) # -1 THEN charAt(LowerLetters, indexOf(UpperLetters, c))
  ELSE c

\* The two halves of a string of two or more characters.  What replaces a
\* string character by character is what replaces its halves, joined.
FirstHalf(s) == SubSeq(s, 1, Len(s) \div 2)

SecondHalf(s) == SubSeq(s, Len(s) \div 2 + 1, Len(s))

RECURSIVE toUpperCase(_)
toUpperCase(s) ==
  IF s = "" THEN ""
  ELSE IF Len(s) = 1 THEN upperChar(s)
  ELSE toUpperCase(FirstHalf(s)) \o toUpperCase(SecondHalf(s))

RECURSIVE toLowerCase(_)
toLowerCase(s) ==
  IF s = "" THEN ""
  ELSE IF Len(s) = 1 THEN lowerChar(s)
  ELSE toLowerCase(FirstHalf(s)) \o toLowerCase(SecondHalf(s))

\* s.replace(/c/g, rep) for a one-character pattern c.
RECURSIVE replaceAll(_, _, _)
replaceAll(s, c, rep) ==
  IF s = "" THEN ""
  ELSE IF Len(s) = 1 THEN (IF s = c THEN rep ELSE s)
  ELSE replaceAll(FirstHalf(s), c, rep) \o replaceAll(SecondHalf(s), c, rep)

\* Variant of escapeHtml that hands the text on as it is.
escapeHtmlSkipped(s) == s

\* escapeHtml (popup.js): four replacements in the order of the source.
escapeHtml(s) ==
  replaceAll(replaceAll(replaceAll(replaceAll(s, "&", "&amp;"), "<", "&lt;"), ">", "&gt;"),
             "\"", "&quot;")

\* End (exclusive) of the longest run of characters of class cls starting at i:
\* the greedy cls* of a regular expression.
\* Long runs are walked eight characters at a time.
RECURSIVE SpanEnd(_, _, _)
SpanEnd(s, i, cls) ==
  IF i + 8 <= Len(s) /\ \A j \in i..(i + 7) : charAt(s, j) \in cls
  THEN SpanEnd(s, i + 8, cls)
  ELSE IF i < Len(s) /\ charAt(s, i) \in cls THEN SpanEnd(s, i + 1, cls) ELSE i

\* parseInt of a non-empty string of decimal digits.
RECURSIVE parseInt(_)
parseInt(s) ==
  IF s = "" THEN 0
  ELSE parseInt(substring(s, 0, Len(s) - 1)) * 10 + indexOf(Digits, charAt(s, Len(s) - 1))

\* encodeURIComponent on the characters the modelled URLs use.
encodeChar(c) ==
  IF c = ":" THEN "%3A"
  ELSE IF c = "/" THEN "%2F"
  ELSE IF c = "?" THEN "%3F"
  ELSE IF c = "&" THEN "%26"
  ELSE IF c = "=" THEN "%3D"
  ELSE c

RECURSIVE encodeURIComponent(_)
encodeURIComponent(s) ==
  IF s = "" THEN ""
  ELSE IF Len(s) = 1 THEN encodeChar(s)
  ELSE encodeURIComponent(FirstHalf(s)) \o encodeURIComponent(SecondHalf(s))

\* ------------------------------------------------------------------------
\* HTML_TEMPLATES (Template Renderer)
\* ------------------------------------------------------------------------

\* Variant of the container template whose outer element carries no id.
TemplateContainerWithoutId(containerKey, columns) ==
  "<div class=\"layout-container layout-" \o ToString(columns) \o "col\">\n"
  \o "  <!-- Container: " \o containerKey \o " -->\n"
  \o "  <!-- CONTAINER_" \o toUpperCase(containerKey) \o "_CONTENT_START -->\n"
  \o "  <!-- CONTAINER_" \o toUpperCase(containerKey) \o "_CONTENT_END -->\n"
  \o "</div>\n"
  \o "\n"

\* HTML_TEMPLATES.container(containerKey, columns)
TemplateContainer(containerKey, columns) ==
  "<div class=\"layout-container layout-" \o ToString(columns) \o "col\" id=\""
     \o containerKey \o "-container\">\n"
  \o "  <!-- Container: " \o containerKey \o " -->\n"
  \o "  <!-- CONTAINER_" \o toUpperCase(containerKey) \o "_CONTENT_START -->\n"
  \o "  <!-- CONTAINER_" \o toUpperCase(containerKey) \o "_CONTENT_END -->\n"
  \o "</div>\n"
  \o "\n"

LayoutClass(layout) ==
  IF layout = "compact" THEN "section-compact"
  ELSE IF layout = "large" THEN "section-large" ELSE "section-card"

ContentClass(layout) ==
  IF layout = "compact" THEN "compact-links"
  ELSE IF layout = "large" THEN "large-links" ELSE "links"

\* HTML_TEMPLATES.category(category, layout)
TemplateCategory(category, layout) ==
  "  <section class=\"" \o LayoutClass(layout) \o " accent-" \o category.accent
     \o "\" id=\"" \o category.key \o "-section\">\n"
  \o "    <header class=\"" \o LayoutClass(layout) \o "__header\">\n"
  \o "      <div class=\"" \o LayoutClass(layout) \o "__title\">"
     \o escapeHtml(category.name) \o "</div>\n"
  \o "      <div class=\"" \o LayoutClass(layout) \o "__meta\">"
     \o escapeHtml(category.description) \o "</div>\n"
  \o "    </header>\n"
  \o "    <div class=\"" \o ContentClass(layout) \o "\">\n"
  \o "      <!-- " \o toUpperCase(category.key) \o "_LINKS_END -->\n"
  \o "    </div>\n"
  \o "  </section>"

\* HTML_TEMPLATES.link(tabInfo, layout)
TemplateLink(tabInfo, layout) ==
  IF layout = "compact" THEN
       "      <a class=\"compact-link\" href=\"" \o tabInfo.url
          \o "\" target=\"_blank\" rel=\"noopener\">\n"
    \o "        <img src=\"" \o tabInfo.iconUrl \o "\" alt=\"\" class=\"compact-icon\">\n"
    \o "        <span class=\"compact-title\">" \o escapeHtml(tabInfo.title) \o "</span>\n"
    \o "        <span class=\"compact-url\">" \o escapeHtml(tabInfo.host) \o "</span>\n"
    \o "      </a>"
  ELSE IF layout = "large" THEN
       "      <a class=\"large-link\" href=\"" \o tabInfo.url
          \o "\" target=\"_blank\" rel=\"noopener\">\n"
    \o "        <div class=\"large-preview\">\n"
    \o "          <img src=\"https://mini.s-shot.ru/1024x768/JPEG/1024/Z100/?"
          \o encodeURIComponent(tabInfo.url)
          \o "\" alt=\"Preview\" class=\"large-screenshot\" onerror=\"this.style.display='none';\">\n"
    \o "          <img src=\"" \o tabInfo.iconUrl \o "\" alt=\"\" class=\"large-icon\">\n"
    \o "        </div>\n"
    \o "        <div class=\"large-content\">\n"
    \o "          <div class=\"large-title\">" \o escapeHtml(tabInfo.title) \o "</div>\n"
    \o "          <div class=\"large-url\">" \o escapeHtml(tabInfo.host) \o "</div>\n"
    \o "        </div>\n"
    \o "      </a>"
  ELSE
       "      <a class=\"linkcard\" href=\"" \o tabInfo.url
          \o "\" target=\"_blank\" rel=\"noopener\">\n"
    \o "        <img src=\"" \o tabInfo.iconUrl \o "\" alt=\"\">\n"
    \o "        <div>\n"
    \o "          <div class=\"title\">" \o escapeHtml(tabInfo.title) \o "</div>\n"
    \o "          <div class=\"url\">" \o escapeHtml(tabInfo.host) \o "</div>\n"
    \o "        </div>\n"
    \o "      </a>"

\* ------------------------------------------------------------------------
\* WikiStructureAnalyzer (Structure Analyzer)
\* ------------------------------------------------------------------------

\* No match of a regular expression.
NoMatch == [found |-> FALSE]

\* Successive matches of a global regular expression: exec resumes at the end of
\* the previous match, so a candidate that starts before that end is skipped.
\* at: the match (or NoMatch) at each candidate position.
RECURSIVE ExecAll(_, _)
ExecAll(at, from) ==
  LET live == {i \in DOMAIN at : i >= from /\ at[i].found}
  IN  IF live = {} THEN <<>>
      ELSE <<at[Min(live)]>> \o ExecAll([i \in live |-> at[i]], at[Min(live)].end)

\* /<div class="layout-container layout-(\d+)col" id="([^"]+)-container">/ at i.
ContainerMatchAt(content, i) ==
  LET lit1   == "<div class=\"layout-container layout-"
      numPos == i + Len(lit1)
      numEnd == SpanEnd(content, numPos, DigitChars)
      lit2   == "col\" id=\""
      keyPos == numEnd + Len(lit2)
      quote  == indexOfFrom(content, "\"", keyPos)
      tail   == "-container"
      keyEnd == quote - Len(tail)
  IN  IF /\ startsWithAt(content, lit1, i)
         /\ numEnd > numPos
         /\ startsWithAt(content, lit2, numEnd)
         /\ quote # -1
         /\ keyEnd > keyPos
         /\ startsWithAt(content, tail, keyEnd)
         /\ charAt(content, quote + 1) = ">"
      THEN [found |-> TRUE, end |-> quote + 2,
            columns |-> substring(content, numPos, numEnd),
            key |-> substring(content, keyPos, keyEnd)]
      ELSE NoMatch

\* The characters "." of a regular expression does not match, among those a
\* Document of the model can hold (U+2028 and U+2029 are the other two).
LineTerminators == {"\n", "\r"}

\* End (exclusive) of the longest run of characters "." matches, from i on.
DotEnd(s, i) ==
  LET stops == {j \in i..(Len(s) - 1) : charAt(s, j) \in LineTerminators}
  IN  IF stops = {} THEN Len(s) ELSE Min(stops)

\* new RegExp(`<!-- Container: ${key}(?:\\s*-\\s*(.+?))? -->`, 'i') at i, for a
\* key of letters, digits and "_".  The flag i makes the literal text match in
\* either case.  The first \s* takes all the white space there is (the dash
\* must follow it); the second \s* takes as much as it can and gives back one
\* character at a time until (.+?), the shortest run of "." characters that
\* " -->" follows, matches behind it; without the optional group " -->" must
\* follow the key at once.
CommentMatchAt(content, key, i) ==
  LET lit    == "<!-- container: " \o toLowerCase(key)
      after  == i + Len(lit)
      dash   == SpanEnd(content, after, WhiteSpace)
      widest == SpanEnd(content, dash + 1, WhiteSpace)
      NameEnds(nameAt) ==
        {m \in (nameAt + 1)..DotEnd(content, nameAt) : startsWithAt(content, " -->", m)}
      starts == {nameAt \in (dash + 1)..widest : NameEnds(nameAt) # {}}
  IN  IF toLowerCase(substring(content, i, after)) # lit THEN NoMatch
      ELSE IF charAt(content, dash) = "-" /\ starts # {}
        THEN [found |-> TRUE,
              name |-> substring(content, Max(starts), Min(NameEnds(Max(starts))))]
      ELSE IF startsWithAt(content, " -->", after)
        THEN [found |-> TRUE, name |-> ""]
      ELSE NoMatch

\* The container's display name: the name in the first matching comment, else
\* the key with its first letter in upper case.
ContainerName(content, key) ==
  LET hits == {i \in Occurrences(content, "<!-- ") : CommentMatchAt(content, key, i).found}
      m    == CommentMatchAt(content, key, Min(hits))
  IN  IF hits # {} /\ m.name # "" THEN m.name
      ELSE toUpperCase(charAt(key, 0)) \o substringFrom(key, 1)

\* WikiStructureAnalyzer.extractContainers
extractContainers(content) ==
  LET ms == ExecAll([i \in Occurrences(content, "<div class=\"layout-container layout-")
                       |-> ContainerMatchAt(content, i)], 0)
  IN  [n \in 1..Len(ms) |->
         [key |-> ms[n].key, name |-> ContainerName(content, ms[n].key),
          columns |-> parseInt(ms[n].columns)]]

\* /<!-- CONTAINER_([^_]+)_CONTENT_START -->/ at i.
StartMarkerMatchAt(s, i) ==
  LET lit    == "<!-- CONTAINER_"
      keyPos == i + Len(lit)
      under  == indexOfFrom(s, "_", keyPos)
  IN  IF /\ startsWithAt(s, lit, i)
         /\ under > keyPos
         /\ startsWithAt(s, "_CONTENT_START -->", under)
      THEN [found |-> TRUE, end |-> under + Len("_CONTENT_START -->"),
            key |-> substring(s, keyPos, under)]
      ELSE NoMatch

\* WikiStructureAnalyzer.findContainerForCategory; "" stands for null.
findContainerForCategory(content, categoryKey) ==
  LET sectionPos    == indexOf(content, "id=\"" \o categoryKey \o "-section\"")
      beforeSection == substring(content, 0, sectionPos)
      containerMatches ==
        ExecAll([i \in Occurrences(beforeSection, "<!-- CONTAINER_")
                   |-> StartMarkerMatchAt(beforeSection, i)], 0)
  IN  IF sectionPos = -1 THEN ""
      ELSE IF Len(containerMatches) = 0 THEN ""
      ELSE toLowerCase(containerMatches[Len(containerMatches)].key)

\* /<section class="(section-\w+)\s+accent-(\w+)" id="([^"]+)-section">/ at i.
SectionMatchAt(content, i) ==
  LET lit1     == "<section class=\""
      classPos == i + Len(lit1)
      wordPos  == classPos + Len("section-")
      classEnd == SpanEnd(content, wordPos, WordChars)
      spaceEnd == SpanEnd(content, classEnd, WhiteSpace)
      lit2     == "accent-"
      accPos   == spaceEnd + Len(lit2)
      accEnd   == SpanEnd(content, accPos, WordChars)
      lit3     == "\" id=\""
      keyPos   == accEnd + Len(lit3)
      quote    == indexOfFrom(content, "\"", keyPos)
      tail     == "-section"
      keyEnd   == quote - Len(tail)
  IN  IF /\ startsWithAt(content, lit1 \o "section-", i)
         /\ classEnd > wordPos
         /\ spaceEnd > classEnd
         /\ startsWithAt(content, lit2, spaceEnd)
         /\ accEnd > accPos
         /\ startsWithAt(content, lit3, accEnd)
         /\ quote # -1
         /\ keyEnd > keyPos
         /\ startsWithAt(content, tail, keyEnd)
         /\ charAt(content, quote + 1) = ">"
      THEN [found |-> TRUE, end |-> quote + 2,
            layoutClass |-> substring(content, classPos, classEnd),
            accent |-> substring(content, accPos, accEnd),
            key |-> substring(content, keyPos, keyEnd)]
      ELSE NoMatch

\* new RegExp(open + "([^<]" + (min = 1 ? "+" : "*") + ")</div>").exec(s):
\* the capture of the leftmost match, NoMatch when there is none.
DivCapture(s, open, min) ==
  LET CapEnd(i) == LET lt == indexOfFrom(s, "<", i + Len(open))
                   IN  IF lt = -1 THEN Len(s) ELSE lt
      hits == {i \in Occurrences(s, open) :
                 /\ CapEnd(i) - (i + Len(open)) >= min
                 /\ startsWithAt(s, "</div>", CapEnd(i))}
  IN  IF hits = {} THEN NoMatch
      ELSE [found |-> TRUE,
            text |-> substring(s, Min(hits) + Len(open), CapEnd(Min(hits)))]

\* layoutClass.includes('compact') ? 'compact' : includes('large') ? 'large' : 'cards'
LayoutOf(layoutClass) ==
  IF includes(layoutClass, "compact") THEN "compact"
  ELSE IF includes(layoutClass, "large") THEN "large" ELSE "cards"

\* The look-ahead window of extractCategories, in characters.
SectionWindow == 500

\* One entry of extractCategories, from one match m of the section pattern.
CategoryOf(content, m) ==
  LET sectionStart   == indexOf(content, "id=\"" \o m.key \o "-section\"")
      sectionContent == substring(content, sectionStart, sectionStart + SectionWindow)
      titleMatch == DivCapture(sectionContent,
                               "<div class=\"" \o m.layoutClass \o "__title\">", 1)
      metaMatch  == DivCapture(sectionContent,
                               "<div class=\"" \o m.layoutClass \o "__meta\">", 0)
      containerKey == findContainerForCategory(content, m.key)
  IN  [key |-> m.key,
       name |-> IF titleMatch.found THEN titleMatch.text ELSE m.key,
       description |-> IF metaMatch.found THEN metaMatch.text ELSE "",
       layout |-> LayoutOf(m.layoutClass),
       accent |-> m.accent,
       containerKey |-> IF containerKey # "" THEN containerKey ELSE "unknown",
       column |-> 0]

\* The matches of the section pattern, in document order.
SectionMatches(content) ==
  ExecAll([i \in Occurrences(content, "<section class=\"section-")
             |-> SectionMatchAt(content, i)], 0)

\* WikiStructureAnalyzer.extractCategories
extractCategories(content) ==
  LET ms == SectionMatches(content)
  IN  [n \in 1..Len(ms) |-> CategoryOf(content, ms[n])]

\* Variant of categoryExists that looks for the key in upper case, as the
\* markers spell it.
categoryExistsUpperCase(content, categoryKey) ==
  includes(content, "id=\"" \o toUpperCase(categoryKey) \o "-section\"")

\* WikiStructureAnalyzer.categoryExists
categoryExists(content, categoryKey) ==
  includes(content, "id=\"" \o categoryKey \o "-section\"")

\* WikiStructureAnalyzer.containerExists
containerExists(content, containerKey) ==
  includes(content, "id=\"" \o containerKey \o "-container\"")

\* ------------------------------------------------------------------------
\* WikiContentManager (Content Editor)
\* ------------------------------------------------------------------------
\* A manager is the pair (content, analyzer): this.content and the content the
\* bound analyzer was built from.  An operation yields the manager after it and
\* the message of the Error it threw ("" when it returned normally).

Thrown(mgr, message) == [content |-> mgr.content, analyzer |-> mgr.analyzer, error |-> message]

\* new WikiContentManager(content)
NewManager(content) == [content |-> content, analyzer |-> content]

\* Variant of addContainer that appends without asking containerExists.
addContainerUnchecked(mgr, containerKey, name, columns) ==
  LET content == mgr.content
                   \o (IF mgr.content # "" /\ ~endsWith(mgr.content, "\n")
                       THEN "\n\n" ELSE "\n")
                   \o TemplateContainer(containerKey, columns)
  IN  [content |-> content, analyzer |-> content, error |-> ""]

\* WikiContentManager.addContainer
addContainer(mgr, containerKey, name, columns) ==
  IF containerExists(mgr.analyzer, containerKey)
  THEN Thrown(mgr, "Container '" \o containerKey \o "' already exists")
  ELSE LET containerHTML == TemplateContainer(containerKey, columns)
           content == mgr.content
                        \o (IF mgr.content # "" /\ ~endsWith(mgr.content, "\n")
                            THEN "\n\n" ELSE "\n")
                        \o containerHTML
       IN  [content |-> content, analyzer |-> content, error |-> ""]

\* Variant of addCategory that splices the category in before it looks at the
\* position of the CONTENT_END marker.
addCategorySpliceFirst(mgr, category) ==
  LET contentEndMarker == "<!-- CONTAINER_" \o toUpperCase(category.containerKey)
                            \o "_CONTENT_END -->"
      markerPos == indexOf(mgr.content, contentEndMarker)
      content   == substring(mgr.content, 0, markerPos)
                     \o TemplateCategory(category, category.layout) \o "\n  "
                     \o substringFrom(mgr.content, markerPos)
  IN  IF categoryExists(mgr.analyzer, category.key)
        THEN Thrown(mgr, "Category '" \o category.key \o "' already exists")
      ELSE IF ~containerExists(mgr.analyzer, category.containerKey)
        THEN Thrown(mgr, "Container '" \o category.containerKey
                           \o "' does not exist. Create the container first.")
      ELSE [content |-> content, analyzer |-> content,
            error |-> IF markerPos = -1
                      THEN "Container content marker for '" \o category.containerKey
                             \o "' not found"
                      ELSE ""]

\* Variant of addCategory that goes for the CONTENT_END marker without asking
\* containerExists.
addCategoryWithoutContainerCheck(mgr, category) ==
  LET contentEndMarker == "<!-- CONTAINER_" \o toUpperCase(category.containerKey)
                            \o "_CONTENT_END -->"
      markerPos == indexOf(mgr.content, contentEndMarker)
      content   == substring(mgr.content, 0, markerPos)
                     \o TemplateCategory(category, category.layout) \o "\n  "
                     \o substringFrom(mgr.content, markerPos)
  IN  IF categoryExists(mgr.analyzer, category.key)
        THEN Thrown(mgr, "Category '" \o category.key \o "' already exists")
      ELSE IF markerPos = -1
        THEN Thrown(mgr, "Container content marker for '" \o category.containerKey
                           \o "' not found")
      ELSE [content |-> content, analyzer |-> content, error |-> ""]

\* Variant of addCategory that puts a newline and two blanks in front of every
\* category, also of the first one of a container.
addCategoryAlwaysSeparated(mgr, category) ==
  LET contentEndMarker == "<!-- CONTAINER_" \o toUpperCase(category.containerKey)
                            \o "_CONTENT_END -->"
      markerPos == indexOf(mgr.content, contentEndMarker)
      content   == substring(mgr.content, 0, markerPos)
                     \o "\n  " \o TemplateCategory(category, category.layout) \o "\n  "
                     \o substringFrom(mgr.content, markerPos)
  IN  IF categoryExists(mgr.analyzer, category.key)
        THEN Thrown(mgr, "Category '" \o category.key \o "' already exists")
      ELSE IF ~containerExists(mgr.analyzer, category.containerKey)
        THEN Thrown(mgr, "Container '" \o category.containerKey
                           \o "' does not exist. Create the container first.")
      ELSE IF markerPos = -1
        THEN Thrown(mgr, "Container content marker for '" \o category.containerKey
                           \o "' not found")
      ELSE [content |-> content, analyzer |-> content, error |-> ""]

\* WikiContentManager.addCategory
addCategory(mgr, category) ==
  LET categoryHTML     == TemplateCategory(category, category.layout)
      contentEndMarker == "<!-- CONTAINER_" \o toUpperCase(category.containerKey)
                            \o "_CONTENT_END -->"
      markerPos    == indexOf(mgr.content, contentEndMarker)
      beforeMarker == substring(mgr.content, 0, markerPos)
      afterMarker  == substringFrom(mgr.content, markerPos)
      startMarker  == "<!-- CONTAINER_" \o toUpperCase(category.containerKey)
                        \o "_CONTENT_START -->"
      startPos     == indexOf(mgr.content, startMarker)
      hasContent   ==
        /\ startPos # -1
        /\ Len(trim(substring(mgr.content, startPos + Len(startMarker), markerPos))) > 0
      insertion == (IF hasContent THEN "\n  " ELSE "") \o categoryHTML \o "\n  "
      content   == beforeMarker \o insertion \o afterMarker
  IN  IF categoryExists(mgr.analyzer, category.key)
        THEN Thrown(mgr, "Category '" \o category.key \o "' already exists")
      ELSE IF ~containerExists(mgr.analyzer, category.containerKey)
        THEN Thrown(mgr, "Container '" \o category.containerKey
                           \o "' does not exist. Create the container first.")
      ELSE IF markerPos = -1
        THEN Thrown(mgr, "Container content marker for '" \o category.containerKey
                           \o "' not found")
      ELSE [content |-> content, analyzer |-> content, error |-> ""]

\* Variant of the end-of-links marker that stops after the key.
LinksEndMarkerPrefix(categoryKey) == "<!-- " \o toUpperCase(categoryKey)

\* The end-of-links marker of a category key.
LinksEndMarker(categoryKey) == "<!-- " \o toUpperCase(categoryKey) \o "_LINKS_END -->"

\* categories.find(cat => cat.key === categoryKey): the index of the first
\* entry with that key, 0 when there is none.
FindCategory(categories, categoryKey) ==
  LET hits == {n \in 1..Len(categories) : categories[n].key = categoryKey}
  IN  IF hits = {} THEN 0 ELSE Min(hits)

\* Variant of addLinkToCategory that renders every link as a card, whatever
\* the layout of the category.
addLinkToCategoryAsCard(mgr, tabInfo, categoryKey) ==
  LET categories == extractCategories(mgr.analyzer)
      found      == FindCategory(categories, categoryKey)
      markerPos  == indexOf(mgr.content, LinksEndMarker(categoryKey))
  IN  IF ~categoryExists(mgr.analyzer, categoryKey)
        THEN Thrown(mgr, "Category '" \o categoryKey \o "' does not exist")
      ELSE IF found = 0
        THEN Thrown(mgr, "Category information for '" \o categoryKey \o "' not found")
      ELSE IF markerPos = -1
        THEN Thrown(mgr, "Insert marker for category '" \o categoryKey \o "' not found")
      ELSE [content |-> substring(mgr.content, 0, markerPos)
                          \o TemplateLink(tabInfo, "cards") \o "\n      "
                          \o substringFrom(mgr.content, markerPos),
            analyzer |-> mgr.analyzer, error |-> ""]

\* Variant of addLinkToCategory that puts the link at the head of the link
\* list, behind the wrapper's opening tag.
addLinkToCategoryAtHead(mgr, tabInfo, categoryKey) ==
  LET categories == extractCategories(mgr.analyzer)
      found      == FindCategory(categories, categoryKey)
      linkHTML   == TemplateLink(tabInfo, categories[found].layout)
      markerPos  == indexOf(mgr.content, LinksEndMarker(categoryKey))
      wrapper    == lastIndexOf(substring(mgr.content, 0, markerPos), "-section\"")
      headPos    == indexOfFrom(mgr.content, "links\">", wrapper) + Len("links\">")
  IN  IF ~categoryExists(mgr.analyzer, categoryKey)
        THEN Thrown(mgr, "Category '" \o categoryKey \o "' does not exist")
      ELSE IF found = 0
        THEN Thrown(mgr, "Category information for '" \o categoryKey \o "' not found")
      ELSE IF markerPos = -1
        THEN Thrown(mgr, "Insert marker for category '" \o categoryKey \o "' not found")
      ELSE [content |-> substring(mgr.content, 0, headPos) \o "\n" \o linkHTML
                          \o substringFrom(mgr.content, headPos),
            analyzer |-> mgr.analyzer, error |-> ""]

\* WikiContentManager.addLinkToCategory; the bound analyzer is not rebuilt.
addLinkToCategory(mgr, tabInfo, categoryKey) ==
  LET categories == extractCategories(mgr.analyzer)
      found      == FindCategory(categories, categoryKey)
      linkHTML   == TemplateLink(tabInfo, categories[found].layout)
      marker     == LinksEndMarker(categoryKey)
      markerPos  == indexOf(mgr.content, marker)
  IN  IF ~categoryExists(mgr.analyzer, categoryKey)
        THEN Thrown(mgr, "Category '" \o categoryKey \o "' does not exist")
      ELSE IF found = 0
        THEN Thrown(mgr, "Category information for '" \o categoryKey \o "' not found")
      ELSE IF markerPos = -1
        THEN Thrown(mgr, "Insert marker for category '" \o categoryKey \o "' not found")
      ELSE [content |-> substring(mgr.content, 0, markerPos) \o linkHTML \o "\n      "
                          \o substringFrom(mgr.content, markerPos),
            analyzer |-> mgr.analyzer, error |-> ""]

\* The opening tag of the link-list wrapper of a layout, as removeAllLinks
\* searches for it.
LinkContainerOpen(layout) ==
  IF layout = "compact" THEN "<div class=\"compact-links\">"
  ELSE IF layout = "large" THEN "<div class=\"large-links\">"
  ELSE "<div class=\"links\">"

\* Variant of the body of the forEach of removeAllLinks that leaves the link
\* area without its indentation.
RemoveLinksOfUnindented(content, category) ==
  LET markerPos    == indexOf(content, LinksEndMarker(category.key))
      beforeMarker == substring(content, 0, markerPos)
      linkContainerStart    == lastIndexOf(beforeMarker, LinkContainerOpen(category.layout))
      linkContainerStartEnd == indexOfFrom(content, ">", linkContainerStart) + 1
  IN  IF markerPos = -1 THEN content
      ELSE IF linkContainerStart = -1 THEN content
      ELSE substring(content, 0, linkContainerStartEnd) \o "\n"
             \o substringFrom(content, markerPos)

\* The body of the forEach of removeAllLinks for one category.
RemoveLinksOf(content, category) ==
  LET marker       == LinksEndMarker(category.key)
      markerPos    == indexOf(content, marker)
      beforeMarker == substring(content, 0, markerPos)
      linkContainerStart    == lastIndexOf(beforeMarker, LinkContainerOpen(category.layout))
      linkContainerStartEnd == indexOfFrom(content, ">", linkContainerStart) + 1
      beforeLinks  == substring(content, 0, linkContainerStartEnd)
      afterLinks   == substringFrom(content, markerPos)
  IN  IF markerPos = -1 THEN content
      ELSE IF linkContainerStart = -1 THEN content
      ELSE beforeLinks \o "\n      " \o afterLinks

\* categories.forEach(...) of removeAllLinks, from entry n on.
RECURSIVE RemoveLinksFrom(_, _, _)
RemoveLinksFrom(content, categories, n) ==
  IF n > Len(categories) THEN content
  ELSE RemoveLinksFrom(RemoveLinksOf(content, categories[n]), categories, n + 1)

\* WikiContentManager.removeAllLinks
removeAllLinks(mgr) ==
  LET content == RemoveLinksFrom(mgr.content, extractCategories(mgr.analyzer), 1)
  IN  [content |-> content, analyzer |-> content, error |-> ""]

\* ------------------------------------------------------------------------
\* Key derivation of the popup forms
\* ------------------------------------------------------------------------

\* s.replace(/[cls]{min,}/g, rep): every maximal run of at least min characters
\* of cls becomes rep.
\* The pieces f[lo], ..., f[hi] joined, by halves.
RECURSIVE Joined(_, _, _)
Joined(f, lo, hi) ==
  IF lo > hi THEN ""
  ELSE IF lo = hi THEN f[lo]
  ELSE Joined(f, lo, (lo + hi) \div 2) \o Joined(f, (lo + hi) \div 2 + 1, hi)

\* Position i of s lies in a run of min or more characters of cls.
InLongRun(s, i, cls, min) ==
  \E a \in (i - min + 1)..i :
    /\ a >= 0
    /\ a + min <= Len(s)
    /\ \A j \in a..(a + min - 1) : charAt(s, j) \in cls

ReplaceRuns(s, cls, min, rep) ==
  Joined([i \in 0..(Len(s) - 1) |->
            IF ~InLongRun(s, i, cls, min) THEN charAt(s, i)
            ELSE IF i = 0 \/ charAt(s, i - 1) \notin cls THEN rep
            ELSE ""],
         0, Len(s) - 1)

RECURSIVE ReplaceOutside(_, _, _)
ReplaceOutside(s, keep, rep) ==
  IF s = "" THEN ""
  ELSE IF Len(s) = 1 THEN (IF s \in keep THEN s ELSE rep)
  ELSE ReplaceOutside(FirstHalf(s), keep, rep) \o ReplaceOutside(SecondHalf(s), keep, rep)

AsciiLower == CharsOf("abcdefghijklmnopqrstuvwxyz")

\* createNewContainer: the key of the container named in the form.
ContainerKeyOf(name) ==
  ReplaceRuns(ReplaceOutside(toLowerCase(name),
                             AsciiLower \cup DigitChars \cup {"ä", "ö", "ü", "ß"}, "_"),
              {"_"}, 1, "_")

\* createNewCategory: the key of the category named in the form.
CategoryKeyOf(name) ==
  LET spaced   == ReplaceRuns(toLowerCase(name), WhiteSpace, 1, "_")
      umlauts  == replaceAll(replaceAll(replaceAll(replaceAll(spaced,
                    "ä", "ae"), "ö", "oe"), "ü", "ue"), "ß", "ss")
      filtered == ReplaceOutside(umlauts, AsciiLower \cup DigitChars \cup {"_", "-"}, "_")
  IN  ReplaceRuns(filtered, {"-", "_"}, 2, "_")

\* ------------------------------------------------------------------------
\* Documents the wiki page can hold when the popup opens
\* ------------------------------------------------------------------------

\* A page that was never filled.
EmptyDoc == ""

\* The page with one empty two-column container "p".
ScenarioDoc ==
  "<div class=\"layout-container layout-2col\" id=\"p-container\">"
  \o "<!-- CONTAINER_P_CONTENT_START --><!-- CONTAINER_P_CONTENT_END --></div>"

\* A page edited by hand in the wiki: container "p" lost its CONTENT_END
\* marker, section "ghost" carries its classes in the other order, section
\* "nomark" lost its end-of-links marker.
HandEditedDoc ==
  "<div class=\"layout-container layout-2col\" id=\"p-container\">\n"
  \o "  <!-- CONTAINER_P_CONTENT_START -->\n"
  \o "  <section class=\"accent-blue section-card\" id=\"ghost-section\">\n"
  \o "    <div class=\"links\">\n"
  \o "      <!-- GHOST_LINKS_END -->\n"
  \o "    </div>\n"
  \o "  </section>\n"
  \o "  <section class=\"section-card accent-blue\" id=\"nomark-section\">\n"
  \o "    <div class=\"links\">\n"
  \o "    </div>\n"
  \o "  </section>\n"
  \o "</div>\n"

\* A page edited by hand in the wiki: the link list of "dev_tools" was given a
\* style attribute.
RestyledDoc ==
  "<div class=\"layout-container layout-2col\" id=\"p-container\">\n"
  \o "  <!-- Container: p -->\n"
  \o "  <!-- CONTAINER_P_CONTENT_START -->\n"
  \o "    <section class=\"section-card accent-blue\" id=\"dev-section\">\n"
  \o "    <header class=\"section-card__header\">\n"
  \o "      <div class=\"section-card__title\">Dev</div>\n"
  \o "      <div class=\"section-card__meta\">d</div>\n"
  \o "    </header>\n"
  \o "    <div class=\"links\">\n"
  \o "      <!-- DEV_LINKS_END -->\n"
  \o "    </div>\n"
  \o "  </section>\n"
  \o "  \n"
  \o "    <section class=\"section-card accent-green\" id=\"dev_tools-section\">\n"
  \o "    <header class=\"section-card__header\">\n"
  \o "      <div class=\"section-card__title\">Dev Tools</div>\n"
  \o "      <div class=\"section-card__meta\"></div>\n"
  \o "    </header>\n"
  \o "    <div class=\"links\" style=\"gap: 4px\">\n"
  \o "      <!-- DEV_TOOLS_LINKS_END -->\n"
  \o "    </div>\n"
  \o "  </section>\n"
  \o "  <!-- CONTAINER_P_CONTENT_END -->\n"
  \o "</div>\n"
  \o "\n"

\* A page edited by hand in the wiki: the end-of-links marker of "dev_tools" was
\* moved into the link list of "dev", and the link list of "dev_tools" ends in a
\* second DEV_LINKS_END marker.
TangledDoc ==
  "<div class=\"layout-container layout-2col\" id=\"p-container\">\n"
  \o "  <!-- Container: p -->\n"
  \o "  <!-- CONTAINER_P_CONTENT_START -->\n"
  \o "    <section class=\"section-card accent-blue\" id=\"dev-section\">\n"
  \o "    <header class=\"section-card__header\">\n"
  \o "      <div class=\"section-card__title\">Dev</div>\n"
  \o "      <div class=\"section-card__meta\">d</div>\n"
  \o "    </header>\n"
  \o "    <div class=\"links\">\n"
  \o "      <!-- DEV_LINKS_END -->\n"
  \o "      <!-- DEV_TOOLS_LINKS_END -->\n"
  \o "    </div>\n"
  \o "  </section>\n"
  \o "  \n"
  \o "    <section class=\"section-card accent-green\" id=\"dev_tools-section\">\n"
  \o "    <header class=\"section-card__header\">\n"
  \o "      <div class=\"section-card__title\">Dev Tools</div>\n"
  \o "      <div class=\"section-card__meta\"></div>\n"
  \o "    </header>\n"
  \o "    <div class=\"links\">\n"
  \o "            <a class=\"linkcard\" href=\"https://a.io/x?q=1\" target=\"_blank\" rel=\"noopener\">\n"
  \o "        <img src=\"https://www.google.com/s2/favicons?domain=a.io&sz=32\" alt=\"\">\n"
  \o "        <div>\n"
  \o "          <div class=\"title\">T&lt;1&gt;</div>\n"
  \o "          <div class=\"url\">a.io</div>\n"
  \o "        </div>\n"
  \o "      </a>\n"
  \o "      <!-- DEV_LINKS_END -->\n"
  \o "    </div>\n"
  \o "  </section>\n"
  \o "  <!-- CONTAINER_P_CONTENT_END -->\n"
  \o "</div>\n"
  \o "\n"

SeedDocuments == {EmptyDoc, ScenarioDoc, HandEditedDoc, RestyledDoc, TangledDoc}

\* ------------------------------------------------------------------------
\* What the user enters in the popup
\* ------------------------------------------------------------------------

\* The new-container form: name and column count.
ContainerForms ==
  {[name |-> "P", columns |-> 2], [name |-> "p", columns |-> 3],
   [name |-> "My Box", columns |-> 3]}

\* The new-category form: name, description, layout button, accent.
CategoryForms ==
  {[name |-> "Dev", description |-> "d", layout |-> "cards", accent |-> "blue"],
   [name |-> "Dev Tools", description |-> "", layout |-> "compact", accent |-> "green"],
   [name |-> "Dev & Tools", description |-> "x", layout |-> "large", accent |-> "teal"]}

\* The values the container select can hold: the keys of the forms above and
\* the key of a container that is cached but no longer on the page.
ContainerKeys == {ContainerKeyOf(f.name) : f \in ContainerForms}
TargetContainers == ContainerKeys \cup {"nope"}

\* newCategory of createNewCategory.
CategoryInput(form, containerKey) ==
  [key |-> CategoryKeyOf(form.name), name |-> form.name,
   description |-> form.description, layout |-> form.layout,
   accent |-> form.accent, containerKey |-> containerKey, column |-> 0]

\* The active tab as chrome.tabs.query gives it; "" stands for a url or a
\* title the tab does not have, and for no tab at all.
ActiveTab(url, title) == [url |-> url, title |-> title]

\* new URL(url).hostname for a url as the browser writes it in tab.url
\* (scheme://[user@]host[:port][/path][?query][#fragment], the host in ASCII):
\* "" when the url has no "//" part.
hostname(url) ==
  LET scheme    == indexOf(url, "://")
      rest      == substringFrom(url, scheme + 3)
      stops     == {j \in 0..(Len(rest) - 1) : charAt(rest, j) \in {"/", "?", "#"}}
      authority == IF stops = {} THEN rest ELSE substring(rest, 0, Min(stops))
      hostport  == substringFrom(authority, lastIndexOf(authority, "@") + 1)
      colon     == IF charAt(hostport, 0) = "["
                   THEN indexOfFrom(hostport, ":", Max({0, indexOf(hostport, "]")}))
                   ELSE indexOf(hostport, ":")
  IN  IF scheme = -1 THEN ""
      ELSE toLowerCase(IF colon = -1 THEN hostport ELSE substring(hostport, 0, colon))

\* /^chrome(-extension)?:\/\// or /^vivaldi:\/\// matches the url.
InternalPage(url) ==
  \/ startsWithAt(url, "chrome://", 0)
  \/ startsWithAt(url, "chrome-extension://", 0)
  \/ startsWithAt(url, "vivaldi://", 0)

\* No tab information: getActiveTabInfo threw.
NoTabInfo == [url |-> "", title |-> "", host |-> "", iconUrl |-> ""]

\* getActiveTabInfo on the active tab: the object it returns (info), or the
\* message of the Error it throws.
getActiveTabInfo(tab) ==
  IF tab.url = "" \/ InternalPage(tab.url)
  THEN [raised |-> TRUE, message |-> "This page cannot be linked (internal browser page)",
        info |-> NoTabInfo]
  ELSE [raised |-> FALSE, message |-> "",
        info |-> [url |-> tab.url,
                  title |-> IF tab.title = "" THEN hostname(tab.url) ELSE tab.title,
                  host |-> hostname(tab.url),
                  iconUrl |-> "https://www.google.com/s2/favicons?domain="
                                \o hostname(tab.url) \o "&sz=32"]]

\* The page the browser shows.
Tabs == {getActiveTabInfo(ActiveTab("https://a.io/x?q=1", "T<1>")).info}

\* The values the category select can hold: the keys of the forms above and
\* the sections of the hand-edited page.
CategoryKeys == {CategoryKeyOf(f.name) : f \in CategoryForms}
LinkTargets == CategoryKeys \cup {"ghost", "nomark"}

\* Link cards on a page.
LinkCount(content) == Cardinality(Occurrences(content, "<a class=\""))

\* The model stops adding links to a page that holds this many.
MaxLinks == 2

\* ------------------------------------------------------------------------
\* Transport and page gateway
\* ------------------------------------------------------------------------
\* A JavaScript value that may be missing is a tuple: <<>> for null or
\* undefined, <<v>> for the value v.

Null == <<>>

Some(v) == <<v>>

\* v || fallback for a string that may be missing: "" is falsy like null.
OrString(v, fallback) ==
  IF v = Null THEN fallback
  ELSE IF v[1] = "" THEN fallback
  ELSE v[1]

\* v || false for a boolean that may be missing.
OrFalse(v) == IF v = Null THEN FALSE ELSE v[1]

\* A tag of the loaded page: the object {id, tag, title} of the page query, or
\* a plain string.  An object without a tag, or with an empty one, has tag "".
TagObject(name) == [type |-> "object", tag |-> name, text |-> ""]

TagText(text) == [type |-> "string", tag |-> "", text |-> text]

\* String(tag): a string is itself, an object is "[object Object]".
StringOf(tag) == IF tag.type = "string" THEN tag.text ELSE "[object Object]"

\* tag => (typeof tag === 'object' && tag.tag) ? tag.tag : String(tag)
TagString(tag) ==
  IF tag.type = "object" /\ tag.tag # "" THEN tag.tag ELSE StringOf(tag)

\* The tags of a page: isArray is Array.isArray(page.tags), items its elements.
TagList(items) == [isArray |-> TRUE, items |-> items]

NoTagList == [isArray |-> FALSE, items |-> <<>>]

\* The list sent when every tag is sent as String(tag).
tagStringsUnconverted(tags) ==
  IF tags.isArray THEN [n \in DOMAIN tags.items |-> StringOf(tags.items[n])] ELSE <<>>

\* Array.isArray(page.tags) ? page.tags.map(...) : []
tagStrings(tags) ==
  IF tags.isArray THEN [n \in DOMAIN tags.items |-> TagString(tags.items[n])] ELSE <<>>

\* The variables of an update mutation that publish the page whatever it was.
UpdateVariablesPublished(pageId, currentPage, newContent) ==
  [id |-> pageId,
   content |-> newContent,
   title |-> OrString(currentPage.title, ""),
   isPublished |-> Some(TRUE),
   isPrivate |-> OrFalse(currentPage.isPrivate),
   locale |-> OrString(currentPage.locale, "en"),
   path |-> OrString(currentPage.path, ""),
   tags |-> tagStrings(currentPage.tags)]

\* popup.js updateWikiPage: the variables of the update mutation, made from the
\* page it has just loaded again.
UpdateVariablesPopup(pageId, currentPage, newContent) ==
  [id |-> pageId,
   content |-> newContent,
   title |-> OrString(currentPage.title, ""),
   isPublished |-> Some(currentPage.isPublished # Some(FALSE)),
   isPrivate |-> OrFalse(currentPage.isPrivate),
   locale |-> OrString(currentPage.locale, "en"),
   path |-> OrString(currentPage.path, ""),
   tags |-> tagStrings(currentPage.tags)]

\* reset-functions.js, demo-template.js and live_edit.js updateWikiPage: the
\* variables of the update mutation, made from the page the caller loaded.  A
\* field of a loaded page is never undefined, so isPublished is sent as loaded.
UpdateVariablesOfPage(page, newContent) ==
  [id |-> page.id,
   content |-> newContent,
   title |-> OrString(page.title, ""),
   isPublished |-> page.isPublished,
   isPrivate |-> OrFalse(page.isPrivate),
   locale |-> OrString(page.locale, "en"),
   path |-> OrString(page.path, ""),
   tags |-> tagStrings(page.tags)]

\* No update mutation has been sent.
NoVariables ==
  [id |-> 0, content |-> "", title |-> "", isPublished |-> Null, isPrivate |-> FALSE,
   locale |-> "", path |-> "", tags |-> <<>>]

\* What a request returns to its caller: the data of the response, or a thrown
\* Error with its message.
NoData == [present |-> FALSE, page |-> FALSE, responseResult |-> Null]

Returned(data) == [raised |-> FALSE, message |-> "", data |-> data]

Raised(message) == [raised |-> TRUE, message |-> message, data |-> NoData]

\* fetch's response.ok
ResponseOk(response) == response.status \in 200..299

\* messages.join(separator)
RECURSIVE Join(_, _)
Join(messages, separator) ==
  IF messages = <<>> THEN ""
  ELSE IF Len(messages) = 1 THEN messages[1]
  ELSE messages[1] \o separator \o Join(Tail(messages), separator)

\* The body of a response as JSON.parse reads it: errors is the value of its
\* "errors" member (present when truthy), data the value of its "data" member.
NoErrors == [present |-> FALSE, isArray |-> FALSE, messages |-> <<>>]

ErrorList(messages) == [present |-> TRUE, isArray |-> TRUE, messages |-> messages]

\* An "errors" member that is an object with a message, not an array.
ErrorObject(message) == [present |-> TRUE, isArray |-> FALSE, messages |-> <<message>>]

\* executeGraphQL of popup.js, reset-functions.js and demo-template.js.  The
\* source separates status and status text by an em dash (U+2014), written
\* here as "-".  json.data || json: a body without data has no pages either.
executeGraphQL(response) ==
  IF ~ResponseOk(response)
  THEN Raised("HTTP " \o ToString(response.status) \o " - " \o response.statusText
              \o ": " \o response.text)
  ELSE IF ~response.parses
  THEN Raised("Invalid JSON response: " \o substring(response.text, 0, 200))
  ELSE IF response.errors.present /\ response.errors.isArray
          /\ Len(response.errors.messages) > 0
  THEN Raised("GraphQL Error: " \o Join(response.errors.messages, "; "))
  ELSE Returned(response.data)

\* gql of live_edit.js: the status is looked at only when the body does not
\* parse; an "errors" member that is an array raises its messages joined,
\* any other one its own message, or "Unknown GraphQL error" without one.
gql(response) ==
  IF ~response.parses
  THEN IF response.status \in {400, 401, 403}
       THEN Raised("GraphQL " \o ToString(response.status)
                   \o " - Check endpoint/token/syntax")
       ELSE Raised("GraphQL Error (" \o ToString(response.status) \o "): "
                   \o substring(response.text, 0, 200))
  ELSE IF response.errors.present
  THEN IF response.errors.isArray
       THEN Raised(Join(response.errors.messages, "; "))
       ELSE IF response.errors.messages # <<>> /\ response.errors.messages[1] # ""
       THEN Raised(response.errors.messages[1])
       ELSE Raised("Unknown GraphQL error")
  ELSE Returned(response.data)

\* loadWikiPage: the page of the answer, or an Error when there is none.
loadWikiPage(pageId, result) ==
  IF result.raised THEN result
  ELSE IF ~(result.data.present /\ result.data.page)
  THEN Raised("Wiki page with ID " \o ToString(pageId) \o " not found")
  ELSE result

\* getPage of live_edit.js
getPage(pageId, result) ==
  IF result.raised THEN result
  ELSE IF ~(result.data.present /\ result.data.page)
  THEN Raised("Page with ID " \o ToString(pageId) \o " not found")
  ELSE result

\* updateWikiPage after the mutation was answered, were the result's
\* responseResult not looked at.
UpdateResultUnchecked(result) == result

\* updateWikiPage after the mutation was answered: an Error unless the
\* responseResult says succeeded.
UpdateResult(result) ==
  IF result.raised THEN result
  ELSE IF result.data.present /\ result.data.responseResult # Null
          /\ result.data.responseResult[1].succeeded
  THEN result
  ELSE Raised("Wiki Update Error: "
              \o (IF result.data.present /\ result.data.responseResult # Null
                     /\ result.data.responseResult[1].message # ""
                  THEN result.data.responseResult[1].message
                  ELSE "Update failed"))

\* The page as the wiki holds it, apart from its content.
DefaultPage ==
  [id |-> 7, title |-> Some("Links"), locale |-> Some("en"), path |-> Some("home"),
   isPublished |-> Some(TRUE), isPrivate |-> Some(FALSE), tags |-> TagList(<<>>)]

\* No request has been answered.
NoResponse ==
  [status |-> 0, statusText |-> "", text |-> "", parses |-> FALSE, errors |-> NoErrors,
   data |-> NoData, applied |-> FALSE]

NoAnswer == [transport |-> "", response |-> NoResponse, result |-> Returned(NoData)]

\* chrome.storage.sync without 'containers' and 'categories': loadData answers
\* with its default, the empty list.
EmptyCache == [containers |-> <<>>, categories |-> <<>>]

\* ------------------------------------------------------------------------
\* Demo template and live editor
\* ------------------------------------------------------------------------

\* demo-template.js generateDemoTemplate
generateDemoTemplate ==
     "<div class=\"layout-container layout-3col\" id=\"development-container\">\n"
  \o "  <!-- Container: development - Development & Tools -->\n"
  \o "  <!-- CONTAINER_DEVELOPMENT_CONTENT_START -->\n"
  \o "  <section class=\"section-card accent-blue\" id=\"webdev-section\">\n"
  \o "    <header class=\"section-card__header\">\n"
  \o "      <div class=\"section-card__title\">Web Development</div>\n"
  \o "      <div class=\"section-card__meta\">Tools and resources for web development</div>\n"
  \o "    </header>\n"
  \o "    <div class=\"links\">\n"
  \o "      <a class=\"linkcard\" href=\"https://www.youtube.com/\" target=\"_blank\" rel=\"noopener\">\n"
  \o "        <img src=\"https://www.google.com/s2/favicons?domain=youtube.com&sz=32\" alt=\"\">\n"
  \o "        <div>\n"
  \o "          <div class=\"title\">YouTube</div>\n"
  \o "          <div class=\"url\">youtube.com</div>\n"
  \o "        </div>\n"
  \o "      </a>\n"
  \o "      <!-- WEBDEV_LINKS_END -->\n"
  \o "    </div>\n"
  \o "  </section>\n"
  \o "  <section class=\"section-compact accent-green\" id=\"tools-section\">\n"
  \o "    <header class=\"section-compact__header\">\n"
  \o "      <div class=\"section-compact__title\">Developer Tools</div>\n"
  \o "      <div class=\"section-compact__meta\">Practical utilities for everyday use</div>\n"
  \o "    </header>\n"
  \o "    <div class=\"compact-links\">\n"
  \o "      <!-- TOOLS_LINKS_END -->\n"
  \o "    </div>\n"
  \o "  </section>\n"
  \o "  <section class=\"section-large accent-purple\" id=\"resources-section\">\n"
  \o "    <header class=\"section-large__header\">\n"
  \o "      <div class=\"section-large__title\">Learning Resources</div>\n"
  \o "      <div class=\"section-large__meta\">Tutorials and documentation</div>\n"
  \o "    </header>\n"
  \o "    <div class=\"large-links\">\n"
  \o "      <!-- RESOURCES_LINKS_END -->\n"
  \o "    </div>\n"
  \o "  </section>\n"
  \o "  <!-- CONTAINER_DEVELOPMENT_CONTENT_END -->\n"
  \o "</div>\n"
  \o "\n"
  \o "<div class=\"layout-container layout-2col\" id=\"productivity-container\">\n"
  \o "  <!-- Container: productivity - Productivity -->\n"
  \o "  <!-- CONTAINER_PRODUCTIVITY_CONTENT_START -->\n"
  \o "  <section class=\"section-card accent-orange\" id=\"office-section\">\n"
  \o "    <header class=\"section-card__header\">\n"
  \o "      <div class=\"section-card__title\">Office & Docs</div>\n"
  \o "      <div class=\"section-card__meta\">Documents and office applications</div>\n"
  \o "    </header>\n"
  \o "    <div class=\"links\">\n"
  \o "      <!-- OFFICE_LINKS_END -->\n"
  \o "    </div>\n"
  \o "  </section>\n"
  \o "  <section class=\"section-card accent-teal\" id=\"communication-section\">\n"
  \o "    <header class=\"section-card__header\">\n"
  \o "      <div class=\"section-card__title\">Communication</div>\n"
  \o "      <div class=\"section-card__meta\">Chat, video calls and collaboration</div>\n"
  \o "    </header>\n"
  \o "    <div class=\"links\">\n"
  \o "      <!-- COMMUNICATION_LINKS_END -->\n"
  \o "    </div>\n"
  \o "  </section>\n"
  \o "  <!-- CONTAINER_PRODUCTIVITY_CONTENT_END -->\n"
  \o "</div>\n"
  \o "\n"

\* demo-template.js DEMO_CONTAINERS
DEMO_CONTAINERS ==
  <<[key |-> "development", name |-> "Development & Tools", columns |-> 3],
    [key |-> "productivity", name |-> "Productivity", columns |-> 2]>>

\* demo-template.js DEMO_CATEGORIES
DEMO_CATEGORIES ==
  <<[key |-> "webdev", name |-> "Web Development",
     description |-> "Tools and resources for web development", layout |-> "cards",
     accent |-> "blue", containerKey |-> "development", column |-> 0],
    [key |-> "tools", name |-> "Developer Tools",
     description |-> "Practical utilities for everyday use", layout |-> "compact",
     accent |-> "green", containerKey |-> "development", column |-> 1],
    [key |-> "resources", name |-> "Learning Resources",
     description |-> "Tutorials and documentation", layout |-> "large",
     accent |-> "purple", containerKey |-> "development", column |-> 2],
    [key |-> "office", name |-> "Office & Docs",
     description |-> "Documents and office applications", layout |-> "cards",
     accent |-> "orange", containerKey |-> "productivity", column |-> 0],
    [key |-> "communication", name |-> "Communication",
     description |-> "Chat, video calls and collaboration", layout |-> "cards",
     accent |-> "teal", containerKey |-> "productivity", column |-> 1]>>

\* Variant of buildSectionHTML whose section id is the bare category key,
\* without the suffix "-section".
buildSectionHTMLPlainId(title, accent, timestamp) ==
  LET categoryKey == CategoryKeyOf(title) \o "_" \o timestamp
      id == categoryKey
      html == trim("\n<section class=\"section-card " \o accent \o "\" id=\"" \o id \o "\">\n"
                \o "  <header class=\"section-card__header\">\n"
                \o "    <div class=\"section-card__title\">" \o title \o "</div>\n"
                \o "    <div class=\"section-card__meta\">newly added</div>\n"
                \o "  </header>\n"
                \o "  <div class=\"links\">\n"
                \o "    \n"
                \o "    <!-- " \o toUpperCase(categoryKey) \o "_LINKS_END -->\n"
                \o "  </div>\n"
                \o "</section>")
  IN  [id |-> id, html |-> html, categoryKey |-> categoryKey]

\* live_edit.js buildSectionHTML (body is never passed): timestamp is
\* Date.now() as it is written into the key.
buildSectionHTML(title, accent, timestamp) ==
  LET categoryKey == CategoryKeyOf(title) \o "_" \o timestamp
      id == categoryKey \o "-section"
      html == trim("\n<section class=\"section-card " \o accent \o "\" id=\"" \o id \o "\">\n"
                \o "  <header class=\"section-card__header\">\n"
                \o "    <div class=\"section-card__title\">" \o title \o "</div>\n"
                \o "    <div class=\"section-card__meta\">newly added</div>\n"
                \o "  </header>\n"
                \o "  <div class=\"links\">\n"
                \o "    \n"
                \o "    <!-- " \o toUpperCase(categoryKey) \o "_LINKS_END -->\n"
                \o "  </div>\n"
                \o "</section>")
  IN  [id |-> id, html |-> html, categoryKey |-> categoryKey]

\* live_edit.js insertBeforeMarker: Null when the marker is not in the content.
insertBeforeMarker(content, marker, snippet) ==
  LET i == indexOf(content, marker)
  IN  IF i = -1 THEN Null
      ELSE Some(substring(content, 0, i) \o snippet \o "\n" \o substringFrom(content, i))

\* s.replace(search, rep) for a string search: the first occurrence only.
replaceFirst(s, search, rep) ==
  LET i == indexOf(s, search)
  IN  IF i = -1 THEN s
      ELSE substring(s, 0, i) \o rep \o substringFrom(s, i + Len(search))

\* live_edit.js MARKERS[container] || MARKERS.development
MARKERS(container) ==
  IF container = "productivity" THEN "<!-- CONTAINER_PRODUCTIVITY_CONTENT_END -->"
  ELSE "<!-- CONTAINER_DEVELOPMENT_CONTENT_END -->"

\* live_edit.js actionAdd: newCategory
LiveEditCategory(categoryKey, title, accent, container) ==
  [key |-> categoryKey, name |-> title, description |-> "newly added",
   layout |-> "cards", accent |-> replaceFirst(accent, "accent-", ""),
   containerKey |-> container, column |-> 0]

\* The live editor before ensureLoaded: loaded = null (page is the content of
\* the loaded page), working = "", lastSnippetId = null.
NotLoaded == [loaded |-> FALSE, page |-> "", working |-> "", lastSnippetId |-> Null]

\* live_edit.js ensureLoaded, from the answer of getPage on: loaded = page,
\* working = String(page.content || "").
Loaded(state, pageContent) ==
  [state EXCEPT !.loaded = TRUE, !.page = pageContent, !.working = pageContent]

\* live_edit.js actionSave, "Reset for next round": loaded = null, working = "".
Unloaded(state) == [state EXCEPT !.loaded = FALSE, !.page = "", !.working = ""]

\* String(lastSnippetId) as String.prototype.includes takes its argument.
SnippetText(lastSnippetId) == IF lastSnippetId = Null THEN "null" ELSE lastSnippetId[1]

\* live_edit.js actionSave: ok, from the page read back and the working string.
Verified(afterContent, state) ==
  \/ includes(afterContent, SnippetText(state.lastSnippetId))
  \/ Len(afterContent) >= Len(state.working) - 10

\* The calls of the live editor that can be in flight at the same time: the
\* ensureLoaded of mount, two clicks on "Insert Category", one click on
\* "Save + Publish".
LiveCalls == {"mount", "add1", "add2", "save"}

\* A call that has not started: where it stands, the container it took from
\* the select, the content it sent, the categories it read from storage.
IdleCall == [pc |-> "idle", container |-> "", sent |-> "", categories |-> <<>>]

NoCalls == [call \in LiveCalls |-> IdleCall]

\* Date.now() at the two clicks on "Insert Category".
ClickTime(call) == IF call = "add1" THEN "1700000000000" ELSE "1700000000001"

\* live_edit.js actionAdd from buildSectionHTML to the assignment of working,
\* on the editor as ensureLoaded left it: the editor after it and the message
\* of the Error it threw ("" for none).
AddSnippet(state, title, accent, container, timestamp) ==
  LET section == buildSectionHTML(title, accent, timestamp)
      marked  == [state EXCEPT !.lastSnippetId = Some(section.id)]
      next    == insertBeforeMarker(state.working, MARKERS(container), section.html)
  IN  IF next = Null
      THEN [editor |-> marked, message |-> "Marker not found: " \o MARKERS(container)]
      ELSE [editor |-> [marked EXCEPT !.working = next[1]], message |-> ""]

\* popup.js syncFromWiki: what it saves as 'containers' and 'categories'.
syncFromWiki(pageContent) ==
  [containers |-> extractContainers(pageContent),
   categories |-> extractCategories(pageContent)]

\* ------------------------------------------------------------------------
\* The content manager as a state machine
\* ------------------------------------------------------------------------
\* content  : the Document (the page as the wiki holds it; in Spec the content
\*            of the manager)
\* analyzer : the Document the analyzer of the last manager is bound to
\* error    : the message of the Error the last operation threw, "" for none
\* last     : the last operation and its arguments
\*
\* In Spec every step builds a new WikiContentManager on the Document, calls
\* one of its methods and takes getContent() as the Document.  The methods
\* are synchronous and touch neither the wiki nor chrome.storage; a method
\* that throws leaves the Document as it was and the model ends the behaviour
\* there.  The handlers that call the methods, with their requests to the
\* wiki and to chrome.storage, are the steps of SpecRace and SpecCache.
\*
\* popup    : per handler under way, how far it has come (used by SpecRace and
\*            SpecCache)
\* writes   : the popups whose update the wiki applied, in that order (0 is the
\*            live editor)
\*
\* remote   : the page's id, title, locale, path, flags and tags in the wiki
\* sent     : the variables of the last update mutation that was sent
\* answer   : the last request: its transport, the response and what the
\*            transport gave its caller
\* cache    : 'containers' and 'categories' of chrome.storage.sync
\* editor   : the live editor's loaded page, working copy and lastSnippetId
\* calls    : the live editor's calls in flight (used by SpecLive)
\* options  : the options page: the import under way and its file (used by
\*            SpecCache)

VARIABLES content, analyzer, error, last, popup, writes, remote, sent, answer, cache,
          editor, calls, options

vars == <<content, analyzer, error, last, popup, writes, remote, sent, answer, cache,
          editor, calls, options>>

\* What the methods of the content manager leave alone.
gateway == <<remote, sent, answer, cache, editor, calls, options>>

\* The options page with no import under way.
NoImport ==
  [pc |-> "idle",
   file |-> [parses |-> FALSE, config |-> FALSE, endpoint |-> "", token |-> "",
             pageId |-> "", containers |-> <<>>, categories |-> <<>>],
   clicks |-> 0]

\* One page in the wiki, nothing sent or cached yet.
InitGateway ==
  /\ remote = DefaultPage
  /\ sent = NoVariables
  /\ answer = NoAnswer
  /\ cache = EmptyCache
  /\ editor = NotLoaded
  /\ calls = NoCalls
  /\ options = NoImport

\* The popups that are open at the same time.
Popups == {1, 2}

\* No handler under way: nothing loaded, read or edited yet, and selects
\* that offer nothing.
Idle ==
  [pc |-> "idle", seen |-> 0, loaded |-> "", newContent |-> "", failure |-> "",
   op |-> "", arg |-> "", containers |-> <<>>, categories |-> <<>>, clicks |-> 0,
   containerSelect |-> <<>>, categorySelect |-> <<>>]

Init ==
  /\ content \in SeedDocuments
  /\ analyzer = content
  /\ error = ""
  /\ last = [op |-> "new", arg |-> ""]
  /\ popup = [p \in Popups |-> Idle]
  /\ writes = <<>>
  /\ InitGateway

\* new WikiContentManager(content), one method called on it: getContent(),
\* the analyzer and the message of the Error thrown become the state.
Becomes(result, op, arg) ==
  /\ content' = result.content
  /\ analyzer' = result.analyzer
  /\ error' = result.error
  /\ last' = [op |-> op, arg |-> arg]
  /\ UNCHANGED <<popup, writes, gateway>>

\* WikiContentManager.addContainer(key, name, columns), the key derived from
\* the name as createNewContainer derives it
AddContainer ==
  /\ error = ""
  /\ \E form \in ContainerForms :
       Becomes(addContainer(NewManager(content), ContainerKeyOf(form.name),
                            form.name, form.columns),
               "addContainer",
               [key |-> ContainerKeyOf(form.name), name |-> form.name,
                columns |-> form.columns])

\* WikiContentManager.addCategory(category), the category as createNewCategory
\* builds it
AddCategory ==
  /\ error = ""
  /\ \E form \in CategoryForms, containerKey \in TargetContainers :
       Becomes(addCategory(NewManager(content), CategoryInput(form, containerKey)),
               "addCategory", CategoryInput(form, containerKey))

\* WikiContentManager.addLinkToCategory(tabInfo, categoryKey)
AddLinkToCategory ==
  /\ error = ""
  /\ LinkCount(content) < MaxLinks
  /\ \E tabInfo \in Tabs, categoryKey \in LinkTargets :
       Becomes(addLinkToCategory(NewManager(content), tabInfo, categoryKey),
               "addLinkToCategory", [tab |-> tabInfo, key |-> categoryKey])

\* WikiContentManager.removeAllLinks()
RemoveAllLinks ==
  /\ error = ""
  /\ Becomes(removeAllLinks(NewManager(content)), "removeAllLinks", "")

Next ==
  \/ AddContainer
  \/ AddCategory
  \/ AddLinkToCategory
  \/ RemoveAllLinks

Spec == Init /\ [][Next]_vars

\* ------------------------------------------------------------------------
\* The page, the tabs and the wiki of two popups
\* ------------------------------------------------------------------------
\* What SpecRace, further down, starts from, and what the wiki does with an
\* update; content is the page as the wiki holds it.

\* The page both popups start from: container "p" with "dev" and "dev_tools".
RaceDoc ==
  LET withContainer == addContainer(NewManager(EmptyDoc), "p", "P", 2).content
      withDev == addCategory(NewManager(withContainer),
                   CategoryInput([name |-> "Dev", description |-> "d",
                                  layout |-> "cards", accent |-> "blue"], "p")).content
  IN  addCategory(NewManager(withDev),
        CategoryInput([name |-> "Dev Tools", description |-> "", layout |-> "compact",
                       accent |-> "green"], "p")).content

\* The tab each popup was opened on.
RaceTab(p) ==
  IF p = 1 THEN getActiveTabInfo(ActiveTab("https://a.io/x?q=1", "T<1>")).info
  ELSE getActiveTabInfo(ActiveTab("https://b.io/", "B")).info

\* The categories the select of a popup offers; "ghost" is cached but not on
\* the page.
RaceTargets == {"dev", "dev_tools", "ghost"}

\* The page after the wiki answered the update mutation without the update
\* being applied.
PageAfterUpdateRejected(current, newContent) == current

\* The page after the update mutation of updateWikiPage: the mutation carries
\* the id, the new content and the page's own title, flags and tags, nothing
\* that names the version the content was made from.
PageAfterUpdate(current, newContent) == newContent

\* ------------------------------------------------------------------------
\* Several pages linked into the same Document, one after the other
\* ------------------------------------------------------------------------
\* addLinkToCategory called again and again with the tabInfo of different tabs
\* on the Document with "dev" and "dev_tools", as in Spec.

\* The tabInfo of the tabs.
OrderTabs ==
  {RaceTab(1), RaceTab(2), getActiveTabInfo(ActiveTab("https://c.io/", "C")).info}

\* The model stops adding links to a page that holds this many.
MaxOrderedLinks == 3

InitLinks ==
  /\ content = RaceDoc
  /\ analyzer = content
  /\ error = ""
  /\ last = [op |-> "new", arg |-> ""]
  /\ popup = [p \in Popups |-> Idle]
  /\ writes = <<>>
  /\ InitGateway

\* WikiContentManager.addLinkToCategory with the tabInfo of any of the tabs
AddCard ==
  /\ error = ""
  /\ LinkCount(content) < MaxOrderedLinks
  /\ \E tabInfo \in OrderTabs, categoryKey \in {"dev", "dev_tools"} :
       Becomes(addLinkToCategory(NewManager(content), tabInfo, categoryKey),
               "addLinkToCategory", [tab |-> tabInfo, key |-> categoryKey])

NextLinks == AddCard

SpecLinks == InitLinks /\ [][NextLinks]_vars

\* ------------------------------------------------------------------------
\* Updating pages of every kind over answers of every kind
\* ------------------------------------------------------------------------
\* updateWikiPage exists three times: in popup.js (loads the page itself), in
\* reset-functions.js and demo-template.js (the caller has loaded the page)
\* and in live_edit.js (the same over gql).  A call runs from one awaited
\* request to the next in one step: the page query is answered, then the
\* update mutation; live_edit.js reads its settings first.  popup[p] is a call
\* under way, two can be under way at once, and the page has any stored
\* title, locale, flags and tags.

\* The tag lists a loaded page can carry: the objects of the page query, plain
\* strings, both, or no list at all.
LoadedTagLists ==
  {TagList(<<>>),
   TagList(<<TagObject("wiki")>>),
   TagList(<<TagObject("wiki"), TagObject("links")>>),
   TagList(<<TagText("plain")>>),
   TagList(<<TagObject("wiki"), TagText("plain")>>),
   NoTagList}

\* The pages the wiki can hold: a page has a locale and a path, its title may
\* be empty, it may be unpublished or private.  The untitled pages are the
\* German ones and the unpublished pages the private ones.
StoredPages ==
  {[id |-> 7, title |-> Some(title), locale |-> Some(IF title = "" THEN "de" ELSE "en"),
    path |-> Some("home"), isPublished |-> Some(isPublished),
    isPrivate |-> Some(~isPublished), tags |-> tags] :
     title \in {"", "Links"}, isPublished \in BOOLEAN, tags \in LoadedTagLists}

\* The answer of the wiki to a request: status line, body text, whether the
\* body parses, and the "errors" and "data" members of the parsed body.
\* applied says whether the wiki has carried out the update.
Response(status, statusText, text, parses, errors, data, applied) ==
  [status |-> status, statusText |-> statusText, text |-> text, parses |-> parses,
   errors |-> errors, data |-> data, applied |-> applied]

PageData == [present |-> TRUE, page |-> TRUE, responseResult |-> Null]

NoPageData == [present |-> TRUE, page |-> FALSE, responseResult |-> Null]

UpdateData(succeeded, message) ==
  [present |-> TRUE, page |-> FALSE,
   responseResult |-> Some([succeeded |-> succeeded, message |-> message])]

\* The answers to the page query: the page, no page, a proxy's error page.
LoadResponses ==
  {Response(200, "OK", "{\"data\":{\"pages\":{\"single\":{}}}}", TRUE, NoErrors,
            PageData, FALSE),
   Response(200, "OK", "{\"data\":{\"pages\":{\"single\":null}}}", TRUE, NoErrors,
            NoPageData, FALSE),
   Response(502, "Bad Gateway", "<html>502</html>", FALSE, NoErrors, NoData, FALSE)}

\* The answer to an update the wiki carried out.
UpdateSucceeded ==
  Response(200, "OK", "{\"data\":{\"pages\":{\"update\":{}}}}", TRUE, NoErrors,
           UpdateData(TRUE, "Page has been updated."), TRUE)

\* The answers to the update mutation: carried out; refused with and without a
\* message; a GraphQL error list, empty and not; an "errors" member that is an
\* object, with and without a message; a body that is no JSON; and error
\* statuses with and without a JSON body.
UpdateResponses ==
  {UpdateSucceeded,
   Response(200, "OK", "{\"data\":{\"pages\":{\"update\":{}}}}", TRUE, NoErrors,
            UpdateData(FALSE, "You are not authorized to update this page."), FALSE),
   Response(200, "OK", "{\"data\":{\"pages\":{\"update\":{}}}}", TRUE, NoErrors,
            UpdateData(FALSE, ""), FALSE),
   Response(200, "OK", "{\"errors\":[{}],\"data\":null}", TRUE,
            ErrorList(<<"Forbidden">>), NoData, FALSE),
   Response(200, "OK", "{\"errors\":[],\"data\":{}}", TRUE,
            ErrorList(<<>>), UpdateData(TRUE, ""), TRUE),
   Response(200, "OK", "<html>login</html>", FALSE, NoErrors, NoData, FALSE),
   Response(502, "Bad Gateway", "<html>502</html>", FALSE, NoErrors, NoData, FALSE),
   Response(200, "OK", "{\"errors\":{\"message\":\"boom\"},\"data\":{}}", TRUE,
            ErrorObject("boom"), UpdateData(TRUE, "Page has been updated."), TRUE),
   Response(200, "OK", "{\"errors\":{},\"data\":{}}", TRUE,
            ErrorObject(""), UpdateData(TRUE, "Page has been updated."), TRUE),
   Response(400, "Bad Request", "{\"errors\":[{}]}", TRUE,
            ErrorList(<<"Syntax Error">>), NoData, FALSE),
   Response(401, "Unauthorized", "{\"message\":\"Unauthorized\"}", TRUE, NoErrors,
            NoData, FALSE)}

\* The content the k-th update is called with: the cleared page and a page
\* with structure, in turn.
NewContent(k) == IF k % 2 = 1 THEN "<br/>" ELSE RaceDoc

\* The model stops after this many calls of updateWikiPage.
MaxUpdates == 2

InitUpdate ==
  /\ content = EmptyDoc
  /\ analyzer = content
  /\ error = ""
  /\ last = [op |-> "new", arg |-> ""]
  /\ popup = [p \in Popups |-> Idle]
  /\ writes = <<>>
  /\ remote \in StoredPages
  /\ sent = NoVariables
  /\ answer = NoAnswer
  /\ cache = EmptyCache
  /\ editor = NotLoaded
  /\ calls = NoCalls
  /\ options = NoImport

\* What the handler shows of an outcome: nothing after a success, else
\* e.message, and String(e) = "Error" for an Error without message.
Shown(outcome) ==
  IF ~outcome.raised THEN ""
  ELSE IF outcome.message = "" THEN "Error"
  ELSE outcome.message

\* The handlers that were started.
Clicked == popup[1].clicks + popup[2].clicks

\* The slot of the next call: the first that is not under way.
NextHandler == Min({p \in Popups : popup[p].pc = "idle"})

\* A call of updateWikiPage can be made: the model stops after MaxUpdates
\* calls, and a call needs a slot.
CanCall == Clicked < MaxUpdates /\ \E p \in Popups : popup[p].pc = "idle"

\* The calls under way after one more call of updateWikiPage, which has got
\* as far as its first request.
Calls(implementation, pc) ==
  [popup EXCEPT ![NextHandler] =
     [Idle EXCEPT !.pc = pc, !.op = implementation,
                  !.newContent = NewContent(Clicked + 1),
                  !.clicks = popup[NextHandler].clicks + 1]]

\* popup.js: updateWikiPage(endpoint, token, pageId, newContent) up to its
\* page query
UpdateWikiPagePopup ==
  /\ CanCall
  /\ popup' = Calls("popup", "loading")
  /\ UNCHANGED <<content, analyzer, error, last, writes, gateway>>

\* reset-functions.js and demo-template.js: the caller's loadWikiPage up to
\* its page query; updateWikiPage(endpoint, token, page, newContent) follows
UpdateWikiPageOfPage ==
  /\ CanCall
  /\ popup' = Calls("reset", "loading")
  /\ UNCHANGED <<content, analyzer, error, last, writes, gateway>>

\* live_edit.js: getPage up to the storage get of getSettings;
\* updateWikiPage(endpoint, token, page, newContent) follows
UpdateWikiPageLiveEdit ==
  /\ CanCall
  /\ popup' = Calls("live_edit", "settings")
  /\ UNCHANGED <<content, analyzer, error, last, writes, gateway>>

\* live_edit.js getPage: the answer of chrome.storage.sync to getSettings;
\* the page query is sent.
SettingsAnswered(p) ==
  /\ popup[p].pc = "settings"
  /\ popup' = [popup EXCEPT ![p].pc = "loading"]
  /\ UNCHANGED <<content, analyzer, error, last, writes, gateway>>

\* The answer to the page query (loadWikiPage, or getPage over gql): without
\* a page the call ends with the Error, with one the update mutation is sent
\* with the page's own title, flags and tags.
QueryAnswered(p) ==
  /\ popup[p].pc = "loading"
  /\ \E loadResponse \in LoadResponses :
       \E loaded \in {IF popup[p].op = "live_edit"
                      THEN getPage(remote.id, gql(loadResponse))
                      ELSE loadWikiPage(remote.id, executeGraphQL(loadResponse))} :
         IF loaded.raised
         THEN /\ popup' = [popup EXCEPT ![p] = [Idle EXCEPT !.clicks = popup[p].clicks]]
              /\ error' = Shown(loaded)
              /\ last' = [op |-> "updateWikiPage", arg |-> popup[p].op]
         ELSE /\ popup' = [popup EXCEPT ![p].pc = "updating", ![p].arg = remote]
              /\ UNCHANGED <<error, last>>
  /\ UNCHANGED <<content, analyzer, writes, gateway>>

\* The answer to the update mutation: the wiki's page is the new content when
\* the wiki carried the update out, whatever the page has become since the
\* page query; updateWikiPage returns or throws.
MutationAnswered(p) ==
  /\ popup[p].pc = "updating"
  /\ \E response \in UpdateResponses :
       \E variables \in {IF popup[p].op = "popup"
                         THEN UpdateVariablesPopup(popup[p].arg.id, popup[p].arg,
                                                   popup[p].newContent)
                         ELSE UpdateVariablesOfPage(popup[p].arg, popup[p].newContent)},
          result \in {IF popup[p].op = "live_edit" THEN gql(response)
                      ELSE executeGraphQL(response)} :
         /\ content' = IF response.applied
                       THEN PageAfterUpdate(content, variables.content) ELSE content
         /\ writes' = IF response.applied THEN Append(writes, p) ELSE writes
         /\ sent' = variables
         /\ answer' = [transport |-> IF popup[p].op = "live_edit" THEN "gql"
                                     ELSE "executeGraphQL",
                       response |-> response, result |-> result]
         /\ error' = Shown(UpdateResult(result))
         /\ last' = [op |-> "updateWikiPage", arg |-> popup[p].op]
  /\ popup' = [popup EXCEPT ![p] = [Idle EXCEPT !.clicks = popup[p].clicks]]
  /\ UNCHANGED <<analyzer, remote, cache, editor, calls, options>>

NextUpdate ==
  \/ UpdateWikiPagePopup
  \/ UpdateWikiPageOfPage
  \/ UpdateWikiPageLiveEdit
  \/ \E p \in Popups :
       \/ SettingsAnswered(p)
       \/ QueryAnswered(p)
       \/ MutationAnswered(p)

SpecUpdate == InitUpdate /\ [][NextUpdate]_vars

\* ------------------------------------------------------------------------
\* The popup's handlers with the wiki and the stored lists
\* ------------------------------------------------------------------------
\* popup[p] is an open popup: what its two selects offer and the handler that
\* is under way in it.  A click starts a handler, and a handler runs from one
\* await to the next in one step: the answer of the wiki to a page query, of
\* chrome.storage.sync to each set and get of the lists, of the wiki to the
\* update mutation, of the browser to the tab query and the clipboard write.
\* Handlers of two popups can be under way at once, and the options page can
\* import a configuration file meanwhile.  The awaits that read only the
\* settings (endpoint, token, pageId) are part of the step that follows them,
\* and the first await of a handler is part of its click.  The wiki answers
\* every page query with the page; it answers an update either with succeeded
\* or with a refusal that carries a message.  error and last are the last log
\* line, without the mark it begins with, and its handler; the line is "" for
\* a success.  A select offers the keys of the list it was last filled from,
\* and the user picks one of them, or none, before a click.

\* The model stops after this many clicks and imports.
MaxClicks == 2

\* The answers of the wiki to an update.
UpdateRefused ==
  Response(200, "OK", "{\"data\":{\"pages\":{\"update\":{}}}}", TRUE, NoErrors,
           UpdateData(FALSE, "You are not authorized to update this page."), FALSE)

CacheResponses == {UpdateSucceeded, UpdateRefused}

\* Date.now() of the one insertion the live editor makes per title.
Timestamps == {"1700000000000"}

\* What the live editor's bar offers.
LiveEditTitles == {"News"}

LiveEditContainers == {"development", "productivity"}

\* updateWikiPage of popup.js, answered with response.
PopupUpdate(newContent, response) ==
  LET outcome == UpdateResult(executeGraphQL(response))
  IN  [raised |-> outcome.raised, message |-> outcome.message,
       applied |-> response.applied,
       variables |-> UpdateVariablesPopup(remote.id, remote, newContent),
       answer |-> [transport |-> "executeGraphQL", response |-> response,
                   result |-> executeGraphQL(response)]]

\* updateWikiPage of reset-functions.js and demo-template.js
PageUpdate(newContent, response) ==
  LET outcome == UpdateResult(executeGraphQL(response))
  IN  [raised |-> outcome.raised, message |-> outcome.message,
       applied |-> response.applied,
       variables |-> UpdateVariablesOfPage(remote, newContent),
       answer |-> [transport |-> "executeGraphQL", response |-> response,
                   result |-> executeGraphQL(response)]]

\* updateWikiPage of live_edit.js
LiveEditUpdate(newContent, response) ==
  LET outcome == UpdateResult(gql(response))
  IN  [raised |-> outcome.raised, message |-> outcome.message,
       applied |-> response.applied,
       variables |-> UpdateVariablesOfPage(remote, newContent),
       answer |-> [transport |-> "gql", response |-> response,
                   result |-> gql(response)]]

\* The page with container "p" and the category "dev" in it.
CategoryDoc ==
  addCategory(NewManager(ScenarioDoc),
              CategoryInput([name |-> "Dev", description |-> "d", layout |-> "cards",
                             accent |-> "blue"], "p")).content

\* The tabs the popup is opened on: one that can be linked and an internal
\* page of the browser.
CacheTabs ==
  {ActiveTab("https://a.io/x?q=1", "T<1>"), ActiveTab("chrome://extensions/", "Extensions")}

\* updateContainerSelect: the values of the options after the first, one per
\* stored container.
updateContainerSelect(containers) == [n \in DOMAIN containers |-> containers[n].key]

\* updateCategorySelect: one option per stored category.
updateCategorySelect(categories) == [n \in DOMAIN categories |-> categories[n].key]

\* The value of a select at a click: that of one of its options, or "" of the
\* first option.
ValuesOf(select) == {select[n] : n \in DOMAIN select} \cup {""}

\* The configuration files the options page is given: an exported
\* configuration with the lists of another page, and a file without a
\* 'config' object.  pageId is a string of digits or no number.
ImportFiles ==
  {[parses |-> TRUE, config |-> TRUE, endpoint |-> "https://wiki.test/graphql",
    token |-> "tok", pageId |-> "7",
    containers |-> <<[key |-> "old", name |-> "Old", columns |-> 2]>>,
    categories |-> <<>>],
   [parses |-> TRUE, config |-> FALSE, endpoint |-> "", token |-> "", pageId |-> "",
    containers |-> <<>>, categories |-> <<>>]}

\* handleFileImport: the Error it throws on a file, "" for none.
ImportError(file) ==
  IF ~file.parses THEN "Invalid JSON file"
  ELSE IF ~file.config THEN "Invalid configuration file - 'config' object missing"
  ELSE IF file.endpoint = "" \/ file.token = "" \/ file.pageId = ""
  THEN "Incomplete configuration - endpoint, token or page ID missing"
  ELSE IF CharsOf(file.pageId) \subseteq DigitChars THEN ""
  ELSE "Invalid page ID"

\* Each popup was opened when the lists were stored as they are: its selects
\* offer them.  The lists are those of the page (a testConnection has stored
\* them), or nothing is stored yet.
InitCache ==
  /\ content \in {EmptyDoc, ScenarioDoc, CategoryDoc}
  /\ analyzer = content
  /\ error = ""
  /\ last = [op |-> "new", arg |-> ""]
  /\ writes = <<>>
  /\ remote = DefaultPage
  /\ sent = NoVariables
  /\ answer = NoAnswer
  /\ cache \in {EmptyCache, syncFromWiki(content)}
  /\ popup = [p \in Popups |->
                [Idle EXCEPT !.containerSelect = updateContainerSelect(cache.containers),
                             !.categorySelect = updateCategorySelect(cache.categories)]]
  /\ editor = NotLoaded
  /\ calls = NoCalls
  /\ options = NoImport

\* The popup p can be clicked: no handler is under way in it.
CanClick(p) ==
  /\ popup[p].pc = "idle"
  /\ Clicked + options.clicks < MaxClicks

\* The handlers of popup.js that begin with syncFromWiki.
SyncingHandlers == {"testConnection", "createNewContainer", "createNewCategory", "addCard"}

\* The popup with no handler under way: its selects and its clicks stay.
Closed(p) ==
  [Idle EXCEPT !.clicks = popup[p].clicks,
               !.containerSelect = popup[p].containerSelect,
               !.categorySelect = popup[p].categorySelect]

\* A click whose handler goes on to its page query.
Starts(p, op, arg, containers) ==
  /\ popup' = [popup EXCEPT ![p] =
                 [Closed(p) EXCEPT !.pc = "loading", !.op = op, !.arg = arg,
                                   !.containers = containers, !.seen = Len(writes),
                                   !.clicks = popup[p].clicks + 1]]
  /\ UNCHANGED <<content, analyzer, error, last, writes, gateway>>

\* A click whose handler logs an error and returns before any request.
Declines(p, op, arg, message) ==
  /\ popup' = [popup EXCEPT ![p].clicks = @ + 1]
  /\ error' = message
  /\ last' = [op |-> op, arg |-> arg]
  /\ UNCHANGED <<content, analyzer, writes, gateway>>

\* A click on 'Add' whose handler throws before any request: addCard logs
\* the error in its catch block and goes on to the clipboard.
Throws(p, arg, message) ==
  /\ popup' = [popup EXCEPT ![p] =
                 [Closed(p) EXCEPT !.pc = "fallback", !.op = "addCard", !.arg = arg,
                                   !.seen = Len(writes),
                                   !.clicks = popup[p].clicks + 1]]
  /\ error' = message
  /\ last' = [op |-> "addCard", arg |-> arg]
  /\ UNCHANGED <<content, analyzer, writes, gateway>>

\* The last log line of a handler under way.
Ends(p, message) ==
  /\ popup' = [popup EXCEPT ![p] = Closed(p)]
  /\ error' = message
  /\ last' = [op |-> popup[p].op, arg |-> popup[p].arg]

\* A handler under way returns without another log line.
Returns(p) ==
  /\ popup' = [popup EXCEPT ![p] = Closed(p)]
  /\ UNCHANGED <<error, last>>

\* A handler under way goes on to its next await.
Awaits(p, pc, newContent) ==
  /\ popup' = [popup EXCEPT ![p].pc = pc, ![p].newContent = newContent]
  /\ UNCHANGED <<error, last>>

\* A handler under way logs a line and goes on to its next await.
Logs(p, message, pc) ==
  /\ popup' = [popup EXCEPT ![p].pc = pc]
  /\ error' = message
  /\ last' = [op |-> popup[p].op, arg |-> popup[p].arg]

\* popup.js testConnection (also run when the popup opens)
TestConnection(p) ==
  /\ CanClick(p)
  /\ Starts(p, "testConnection", "", <<>>)

\* popup.js createNewContainer up to syncFromWiki: the form, the key,
\* loadData('containers') and the look into the stored list.
CreateNewContainer(p) ==
  /\ CanClick(p)
  /\ \E form \in ContainerForms :
       \E key \in {ContainerKeyOf(form.name)} :
         LET containers == cache.containers
             arg == [key |-> key, name |-> form.name, columns |-> form.columns]
         IN  IF \E n \in DOMAIN containers : containers[n].key = key
             THEN Declines(p, "createNewContainer", arg,
                           "A container with this name already exists.")
             ELSE Starts(p, "createNewContainer", arg, containers)

\* popup.js createNewCategory up to syncFromWiki: the form and the value of
\* #containerSelect.
CreateNewCategory(p) ==
  /\ CanClick(p)
  /\ \E form \in CategoryForms, containerKey \in ValuesOf(popup[p].containerSelect) :
       IF containerKey = ""
       THEN Declines(p, "createNewCategory", CategoryInput(form, ""),
                     "Please select a container or create a new one.")
       ELSE Starts(p, "createNewCategory", CategoryInput(form, containerKey), <<>>)

\* popup.js addCard up to syncFromWiki: getActiveTabInfo and the value of
\* #categorySelect.
AddCardToSelected(p) ==
  /\ CanClick(p)
  /\ \E tab \in CacheTabs, categoryKey \in ValuesOf(popup[p].categorySelect) :
       \E tabInfo \in {getActiveTabInfo(tab)} :
         \E arg \in {[tab |-> tabInfo.info, key |-> categoryKey, active |-> tab]} :
           IF tabInfo.raised
           THEN Throws(p, [arg EXCEPT !.key = ""], tabInfo.message)
           ELSE IF categoryKey = ""
           THEN Throws(p, arg, "Please select a category or create a new one.")
           ELSE Starts(p, "addCard", arg, <<>>)

\* reset-functions.js resetLinksOnly up to loadWikiPage
ResetLinksOnly(p) ==
  /\ CanClick(p)
  /\ Starts(p, "resetLinksOnly", "", <<>>)

\* reset-functions.js clearWikiPage up to loadWikiPage
ClearWikiPage(p) ==
  /\ CanClick(p)
  /\ Starts(p, "clearWikiPage", "", <<>>)

\* demo-template.js loadDemoTemplate up to loadWikiPage
LoadDemoTemplate(p) ==
  /\ CanClick(p)
  /\ Starts(p, "loadDemoTemplate", "", <<>>)

\* The answer of the wiki to the page query of the handler: loadWikiPage of
\* syncFromWiki, which goes on to saveData('containers', ...), or loadWikiPage
\* of resetLinksOnly, clearWikiPage and loadDemoTemplate, which go on to
\* updateWikiPage with the page they loaded.  reset-functions.js has its own
\* copy of removeAllLinks, statement for statement that of popup.js.
PageLoaded(p) ==
  /\ popup[p].pc = "loading"
  /\ \E page \in {content} :
       popup' = [popup EXCEPT
                   ![p].loaded = page,
                   ![p].pc = IF popup[p].op \in SyncingHandlers THEN "containers"
                             ELSE "updating",
                   ![p].newContent =
                     CASE popup[p].op = "resetLinksOnly"
                            -> removeAllLinks(NewManager(page)).content
                       [] popup[p].op = "clearWikiPage" -> "<br/>"
                       [] popup[p].op = "loadDemoTemplate" -> generateDemoTemplate
                       [] OTHER -> ""]
  /\ UNCHANGED <<content, analyzer, error, last, writes, gateway>>

\* syncFromWiki: the answer to saveData('containers', containers).
ContainersSaved(p) ==
  /\ popup[p].pc = "containers"
  /\ cache' = [cache EXCEPT !.containers = extractContainers(popup[p].loaded)]
  /\ popup' = [popup EXCEPT ![p].pc = "categories"]
  /\ UNCHANGED <<content, analyzer, error, last, writes, remote, sent, answer, editor,
                 calls, options>>

\* What the handler does with wikiData once syncFromWiki has returned, up to
\* its updateWikiPage: the Error it throws or logs, or the new content.
Edited(op, arg, wikiData) ==
  CASE op = "createNewContainer" ->
         addContainer(NewManager(wikiData.content), arg.key, arg.name, arg.columns)
    [] op = "createNewCategory" ->
         IF \E m \in DOMAIN wikiData.categories :
              \E existing \in {wikiData.categories[m].name} :
                toLowerCase(existing) = toLowerCase(arg.name)
         THEN [content |-> wikiData.content, analyzer |-> wikiData.content,
               error |-> "A category with the name \"" \o arg.name
                           \o "\" already exists.\n\nCategory names must be unique."]
         ELSE addCategory(NewManager(wikiData.content), arg)
    [] op = "addCard" ->
         addLinkToCategory(NewManager(wikiData.content), arg.tab, arg.key)
    [] OTHER -> [content |-> wikiData.content, analyzer |-> wikiData.content,
                 error |-> ""]

\* syncFromWiki: the answer to saveData('categories', categories).  The
\* handler goes on with wikiData: testConnection logs the success and fills
\* the selects; the others edit the page and call updateWikiPage, which
\* queries the page; an Error ends the handler, addCard after its fallback.
CategoriesSaved(p) ==
  /\ popup[p].pc = "categories"
  /\ \E categories \in {extractCategories(popup[p].loaded)} :
       /\ cache' = [cache EXCEPT !.categories = categories]
       /\ \E manager \in {Edited(popup[p].op, popup[p].arg,
                                 [content |-> popup[p].loaded,
                                  categories |-> categories])} :
            IF popup[p].op = "testConnection" THEN Logs(p, "", "containerSelect")
            ELSE IF manager.error = "" THEN Awaits(p, "querying", manager.content)
            ELSE IF popup[p].op = "addCard" THEN Logs(p, manager.error, "fallback")
            ELSE Ends(p, manager.error)
  /\ UNCHANGED <<content, analyzer, writes, remote, sent, answer, editor, calls, options>>

\* updateWikiPage of popup.js: the answer to its own loadWikiPage, whose
\* title, flags and tags go into the mutation.
PageQueried(p) ==
  /\ popup[p].pc = "querying"
  /\ popup' = [popup EXCEPT ![p].pc = "updating"]
  /\ UNCHANGED <<content, analyzer, error, last, writes, gateway>>

\* The answer of the wiki to the update mutation of updateWikiPage (popup.js
\* for the handlers that synchronise, else the copy that takes the loaded
\* page).  A refusal ends the handler in its catch, addCard after its
\* fallback; after a success createNewContainer saves its list,
\* createNewCategory and addCard load the stored categories, loadDemoTemplate
\* stores the demo lists, clearWikiPage logs and returns to handleClearWiki,
\* which fills the selects, and resetLinksOnly logs its success.
PageUpdated(p) ==
  /\ popup[p].pc = "updating"
  /\ \E response \in CacheResponses :
       \E update \in {IF popup[p].op \in SyncingHandlers
                      THEN PopupUpdate(popup[p].newContent, response)
                      ELSE PageUpdate(popup[p].newContent, response)} :
         /\ content' = IF update.applied
                       THEN PageAfterUpdate(content, update.variables.content)
                       ELSE content
         /\ writes' = IF update.applied THEN Append(writes, p) ELSE writes
         /\ sent' = update.variables
         /\ answer' = update.answer
         /\ IF update.raised
            THEN IF popup[p].op = "addCard" THEN Logs(p, Shown(update), "fallback")
                 ELSE Ends(p, Shown(update))
            ELSE IF popup[p].op \in {"createNewContainer", "loadDemoTemplate"}
            THEN Awaits(p, "storing", popup[p].newContent)
            ELSE IF popup[p].op \in {"createNewCategory", "addCard"}
            THEN Awaits(p, "reading", popup[p].newContent)
            ELSE IF popup[p].op = "clearWikiPage" THEN Logs(p, "", "containerSelect")
            ELSE Ends(p, "")
  /\ UNCHANGED <<analyzer, remote, cache, editor, calls, options>>

\* The answer to loadData('categories', []): createNewCategory pushes its
\* category to the list and saves it, addCard takes the category's name from
\* it and logs its success.
CategoriesRead(p) ==
  /\ popup[p].pc = "reading"
  /\ IF popup[p].op = "addCard" THEN Ends(p, "")
     ELSE /\ popup' = [popup EXCEPT ![p].pc = "storing",
                                    ![p].categories = cache.categories]
          /\ UNCHANGED <<error, last>>
  /\ UNCHANGED <<content, analyzer, writes, gateway>>

\* The answer of chrome.storage.sync to the last set of the handler:
\* createNewContainer saves the list it read before syncFromWiki with the new
\* container pushed, createNewCategory the list it has just read with the new
\* category pushed, loadDemoTemplate both demo lists in one set.
\* loadDemoTemplate logs its success and returns to handleLoadDemo; each
\* handler goes on to fill a select.
ListsStored(p) ==
  /\ popup[p].pc = "storing"
  /\ cache' =
       CASE popup[p].op = "createNewContainer"
              -> [cache EXCEPT !.containers = Append(popup[p].containers, popup[p].arg)]
         [] popup[p].op = "createNewCategory"
              -> [cache EXCEPT !.categories = Append(popup[p].categories, popup[p].arg)]
         [] OTHER -> [containers |-> DEMO_CONTAINERS, categories |-> DEMO_CATEGORIES]
  /\ CASE popup[p].op = "createNewContainer" -> Awaits(p, "containerSelect", "")
       [] popup[p].op = "createNewCategory" -> Awaits(p, "categorySelect", "")
       [] OTHER -> Logs(p, "", "containerSelect")
  /\ UNCHANGED <<content, analyzer, writes, remote, sent, answer, editor, calls, options>>

\* updateContainerSelect: the answer to its loadData('containers', []).
\* createNewContainer selects its container and logs its success; the others
\* go on to updateCategorySelect.
ContainerSelectFilled(p) ==
  /\ popup[p].pc = "containerSelect"
  /\ \E select \in {updateContainerSelect(cache.containers)} :
       IF popup[p].op = "createNewContainer"
       THEN /\ popup' = [popup EXCEPT ![p] = [Closed(p) EXCEPT !.containerSelect = select]]
            /\ error' = ""
            /\ last' = [op |-> popup[p].op, arg |-> popup[p].arg]
       ELSE /\ popup' = [popup EXCEPT ![p].pc = "categorySelect",
                                      ![p].containerSelect = select]
            /\ UNCHANGED <<error, last>>
  /\ UNCHANGED <<content, analyzer, writes, gateway>>

\* updateCategorySelect: the answer to its loadData('categories', []).  The
\* select is not touched yet: loadData('containers', []) is awaited next.
CategoriesForSelect(p) ==
  /\ popup[p].pc = "categorySelect"
  /\ popup' = [popup EXCEPT ![p].pc = "categoryOptions",
                             ![p].categories = cache.categories]
  /\ UNCHANGED <<content, analyzer, error, last, writes, gateway>>

\* updateCategorySelect: the answer to its loadData('containers', []), which
\* goes into the texts of the options only; the select is filled from the
\* categories read before.  createNewCategory selects its category and logs
\* its success; the others have logged theirs.
CategorySelectFilled(p) ==
  /\ popup[p].pc = "categoryOptions"
  /\ \E select \in {updateCategorySelect(popup[p].categories)} :
       /\ popup' = [popup EXCEPT ![p] = [Closed(p) EXCEPT !.categorySelect = select]]
       /\ IF popup[p].op = "createNewCategory"
          THEN /\ error' = ""
               /\ last' = [op |-> popup[p].op, arg |-> popup[p].arg]
          ELSE UNCHANGED <<error, last>>
  /\ UNCHANGED <<content, analyzer, writes, gateway>>

\* The catch block of addCard: the answer to its getActiveTabInfo.  The card
\* is written to the clipboard, or the Error of getActiveTabInfo goes to the
\* console and the handler returns.
FallbackTab(p) ==
  /\ popup[p].pc = "fallback"
  /\ IF getActiveTabInfo(popup[p].arg.active).raised THEN Returns(p)
     ELSE Awaits(p, "clipboard", popup[p].newContent)
  /\ UNCHANGED <<content, analyzer, writes, gateway>>

\* The catch block of addCard: the answer to navigator.clipboard.writeText.
ClipboardWritten(p) ==
  /\ popup[p].pc = "clipboard"
  /\ Ends(p, "The link card has been copied to clipboard.")
  /\ UNCHANGED <<content, analyzer, writes, gateway>>

\* options.js handleFileImport up to chrome.storage.sync.set: the file is
\* read, parsed and validated.
HandleFileImport ==
  /\ options.pc = "idle"
  /\ Clicked + options.clicks < MaxClicks
  /\ \E file \in ImportFiles :
       IF ImportError(file) # ""
       THEN /\ options' = [options EXCEPT !.clicks = @ + 1]
            /\ error' = ImportError(file)
            /\ last' = [op |-> "handleFileImport", arg |-> file]
       ELSE /\ options' = [pc |-> "saving", file |-> file, clicks |-> options.clicks + 1]
            /\ UNCHANGED <<error, last>>
  /\ UNCHANGED <<content, analyzer, popup, writes, remote, sent, answer, cache, editor,
                 calls>>

\* handleFileImport: the answer to chrome.storage.sync.set, which puts the
\* lists of the file in place of the stored ones.
ConfigurationSaved ==
  /\ options.pc = "saving"
  /\ cache' = [containers |-> options.file.containers,
               categories |-> options.file.categories]
  /\ options' = [NoImport EXCEPT !.clicks = options.clicks]
  /\ error' = ""
  /\ last' = [op |-> "handleFileImport", arg |-> options.file]
  /\ UNCHANGED <<content, analyzer, popup, writes, remote, sent, answer, editor, calls>>

NextCache ==
  \/ \E p \in Popups :
       \/ TestConnection(p)
       \/ CreateNewContainer(p)
       \/ CreateNewCategory(p)
       \/ AddCardToSelected(p)
       \/ ResetLinksOnly(p)
       \/ ClearWikiPage(p)
       \/ LoadDemoTemplate(p)
       \/ PageLoaded(p)
       \/ ContainersSaved(p)
       \/ CategoriesSaved(p)
       \/ PageQueried(p)
       \/ PageUpdated(p)
       \/ CategoriesRead(p)
       \/ ListsStored(p)
       \/ ContainerSelectFilled(p)
       \/ CategoriesForSelect(p)
       \/ CategorySelectFilled(p)
       \/ FallbackTab(p)
       \/ ClipboardWritten(p)
  \/ HandleFileImport
  \/ ConfigurationSaved

SpecCache == InitCache /\ [][NextCache]_vars

\* ------------------------------------------------------------------------
\* Two popups that add a link card each
\* ------------------------------------------------------------------------
\* The steps of addCard in each popup, one per answer: of the wiki to the page
\* query of syncFromWiki, of chrome.storage.sync to the two saveData of
\* syncFromWiki, of the wiki to the page query of updateWikiPage and to its
\* update mutation, which the wiki answers with succeeded.

InitRace ==
  /\ content = RaceDoc
  /\ analyzer = content
  /\ error = ""
  /\ last = [op |-> "new", arg |-> ""]
  /\ popup = [p \in Popups |-> Idle]
  /\ writes = <<>>
  /\ InitGateway

\* addCard: the answer to loadWikiPage inside syncFromWiki.
Sync(p) ==
  /\ popup[p].pc = "idle"
  /\ popup' = [popup EXCEPT ![p].pc = "containers", ![p].loaded = content,
                            ![p].seen = Len(writes)]
  /\ UNCHANGED <<content, analyzer, error, last, writes, gateway>>

\* syncFromWiki: the answer to saveData('containers', containers).
SyncContainers(p) ==
  /\ popup[p].pc = "containers"
  /\ cache' = [cache EXCEPT !.containers = extractContainers(popup[p].loaded)]
  /\ popup' = [popup EXCEPT ![p].pc = "categories"]
  /\ UNCHANGED <<content, analyzer, error, last, writes, remote, sent, answer, editor,
                 calls, options>>

\* syncFromWiki: the answer to saveData('categories', categories).
SyncCategories(p) ==
  /\ popup[p].pc = "categories"
  /\ cache' = [cache EXCEPT !.categories = extractCategories(popup[p].loaded)]
  /\ popup' = [popup EXCEPT ![p].pc = "synced"]
  /\ UNCHANGED <<content, analyzer, error, last, writes, remote, sent, answer, editor,
                 calls, options>>

\* addCard: new WikiContentManager(wikiData.content), addLinkToCategory; a
\* thrown Error ends the handler in its catch block.
Edit(p) ==
  /\ popup[p].pc = "synced"
  /\ \E categoryKey \in RaceTargets, tab \in {RaceTab(p)} :
       \E result \in {addLinkToCategory(NewManager(popup[p].loaded), tab, categoryKey)} :
         popup' = [popup EXCEPT
                     ![p].pc = IF result.error = "" THEN "edited" ELSE "failed",
                     ![p].newContent = result.content,
                     ![p].failure = result.error]
  /\ UNCHANGED <<content, analyzer, error, last, writes, gateway>>

\* updateWikiPage: the answer to its loadWikiPage (title, flags, tags).
Current(p) ==
  /\ popup[p].pc = "edited"
  /\ popup' = [popup EXCEPT ![p].pc = "updating"]
  /\ UNCHANGED <<content, analyzer, error, last, writes, gateway>>

\* updateWikiPage: the wiki applies the update mutation and answers
\* succeeded; addCard logs the success.
Update(p) ==
  /\ popup[p].pc = "updating"
  /\ \E update \in {PopupUpdate(popup[p].newContent, UpdateSucceeded)} :
       /\ content' = PageAfterUpdate(content, update.variables.content)
       /\ sent' = update.variables
       /\ answer' = update.answer
  /\ writes' = Append(writes, p)
  /\ popup' = [popup EXCEPT ![p].pc = "done"]
  /\ UNCHANGED <<analyzer, error, last, remote, cache, editor, calls, options>>

NextRace ==
  \E p \in Popups :
    \/ Sync(p)
    \/ SyncContainers(p)
    \/ SyncCategories(p)
    \/ Edit(p)
    \/ Current(p)
    \/ Update(p)

SpecRace == InitRace /\ [][NextRace]_vars

\* ------------------------------------------------------------------------
\* Categories with accents of any spelling
\* ------------------------------------------------------------------------
\* addCategory writes the accent into the class attribute as it is given, and
\* addLinkToCategory looks the category up through extractCategories.

\* Accents a caller may hand over: a colour word, two words joined by a
\* hyphen, two words, none.
Accents == {"blue", "light-blue", "dark blue", ""}

\* A page with the empty container "p", as stored and as addContainer writes it.
InitAccent ==
  /\ content \in {ScenarioDoc, addContainer(NewManager(EmptyDoc), "p", "P", 2).content}
  /\ analyzer = content
  /\ error = ""
  /\ last = [op |-> "new", arg |-> ""]
  /\ popup = [p \in Popups |-> Idle]
  /\ writes = <<>>
  /\ InitGateway

\* WikiContentManager.addCategory with one of the accents
AddAccentCategory ==
  /\ error = ""
  /\ \E form \in CategoryForms, accent \in Accents :
       \E category \in {[CategoryInput(form, "p") EXCEPT !.accent = accent]} :
         Becomes(addCategory(NewManager(content), category), "addCategory", category)

\* WikiContentManager.addLinkToCategory on a page built that way
AddAccentLink ==
  /\ error = ""
  /\ LinkCount(content) < MaxLinks
  /\ \E tabInfo \in Tabs, categoryKey \in CategoryKeys :
       Becomes(addLinkToCategory(NewManager(content), tabInfo, categoryKey),
               "addLinkToCategory", [tab |-> tabInfo, key |-> categoryKey])

NextAccent ==
  \/ AddAccentCategory
  \/ AddAccentLink

SpecAccent == InitAccent /\ [][NextAccent]_vars

\* ------------------------------------------------------------------------
\* Display texts that look like markup
\* ------------------------------------------------------------------------
\* Name and description of a category and the title of a tab are whatever the
\* user or the visited page supplies; createNewCategory derives the key from
\* the name and takes no empty name.

\* Display texts: empty, with an ampersand, and texts that spell a marker
\* comment, id attributes and a section tag.
DisplayTexts ==
  {"", "Tom & Jerry",
   "<!-- DEV_LINKS_END -->",
   "x\" id=\"evil-container\" id=\"evil-section\">",
   "<section class=\"section-card accent-red\" id=\"evil-section\">"}

\* The descriptions among them.
Descriptions == {t \in DisplayTexts : includes(t, "&") \/ includes(t, "id=\"evil-container")}

\* The names among them: createNewCategory returns on an empty name.
Names == DisplayTexts \ {""}

\* newCategory of createNewCategory for the given texts, container "p" chosen.
TextCategory(name, description, layout) ==
  CategoryInput([name |-> name, description |-> description, layout |-> layout,
                 accent |-> "blue"], "p")

\* The tab of a page with the given title.
TextTab(title) == getActiveTabInfo(ActiveTab("https://a.io/", title)).info

InitText ==
  /\ content = ScenarioDoc
  /\ analyzer = content
  /\ error = ""
  /\ last = [op |-> "new", arg |-> ""]
  /\ popup = [p \in Popups |-> Idle]
  /\ writes = <<>>
  /\ InitGateway

\* The key of the category the page was given (of the category added last, or
\* of the link added to it last).
TextKey == last.arg.key

\* WikiContentManager.addCategory -> HTML_TEMPLATES.category, on the new page
AddTextCategory ==
  /\ error = ""
  /\ last.op = "new"
  /\ \E name \in Names, description \in Descriptions,
        layout \in {"cards", "compact", "large"} :
       \E category \in {TextCategory(name, description, layout)} :
         Becomes(addCategory(NewManager(content), category), "addCategory", category)

\* WikiContentManager.addLinkToCategory -> HTML_TEMPLATES.link, to the
\* category that was added
AddTextLink ==
  /\ error = ""
  /\ last.op # "new"
  /\ LinkCount(content) < MaxLinks
  /\ \E title \in DisplayTexts, categoryKey \in {TextKey} :
       \E tabInfo \in {TextTab(title)} :
         Becomes(addLinkToCategory(NewManager(content), tabInfo, categoryKey),
                 "addLinkToCategory", [tab |-> tabInfo, key |-> categoryKey])

NextText ==
  \/ AddTextCategory
  \/ AddTextLink

SpecText == InitText /\ [][NextText]_vars

\* ------------------------------------------------------------------------
\* Documents built by the content manager alone
\* ------------------------------------------------------------------------
\* The methods of the content manager, one per step as in Spec, on a Document
\* that starts empty: containers "p" and "my_box", categories in "p", links,
\* reset.

InitBuild ==
  /\ content = EmptyDoc
  /\ analyzer = content
  /\ error = ""
  /\ last = [op |-> "new", arg |-> ""]
  /\ popup = [p \in Popups |-> Idle]
  /\ writes = <<>>
  /\ InitGateway

\* WikiContentManager.addContainer for a container other than "p"
BuildContainer ==
  /\ error = ""
  /\ \E form \in {f \in ContainerForms : f.name # "p"} :
       Becomes(addContainer(NewManager(content), ContainerKeyOf(form.name),
                            form.name, form.columns),
               "addContainer",
               [key |-> ContainerKeyOf(form.name), name |-> form.name,
                columns |-> form.columns])

\* WikiContentManager.addCategory for a category in "p"
BuildCategory ==
  /\ error = ""
  /\ \E form \in CategoryForms :
       Becomes(addCategory(NewManager(content), CategoryInput(form, "p")),
               "addCategory", CategoryInput(form, "p"))

NextBuild ==
  \/ BuildContainer
  \/ BuildCategory
  \/ AddLinkToCategory
  \/ RemoveAllLinks

SpecBuild == InitBuild /\ [][NextBuild]_vars

\* ------------------------------------------------------------------------
\* The live editor's calls side by side
\* ------------------------------------------------------------------------
\* mount starts ensureLoaded and does not wait for it; every click starts a
\* call of its own.  A call runs from one await to the next in one step: the
\* answer of the wiki to getPage, of the storage to get and to set, of the
\* wiki to the update mutation.  The wiki reads and writes the page when it
\* answers.

\* The page the editor is mounted on: container "development" with the large
\* category "dev".
LiveDoc ==
  addCategory(NewManager(addContainer(NewManager(EmptyDoc), "development",
                                      "Development", 2).content),
              CategoryInput([name |-> "Dev", description |-> "d", layout |-> "large",
                             accent |-> "blue"], "development")).content

\* mount has called ensureLoaded; getPage is on its way.
InitLive ==
  /\ content = LiveDoc
  /\ analyzer = content
  /\ error = ""
  /\ last = [op |-> "new", arg |-> ""]
  /\ popup = [p \in Popups |-> Idle]
  /\ writes = <<>>
  /\ remote = DefaultPage
  /\ sent = NoVariables
  /\ answer = NoAnswer
  /\ cache = EmptyCache
  /\ editor = NotLoaded
  /\ calls = [NoCalls EXCEPT !["mount"].pc = "loading"]
  /\ options = NoImport

\* One step of a call: the editor and the call after it, and the message the
\* toast shows when the call ended in its catch.
Proceeds(call, newEditor, newCall, message) ==
  /\ editor' = newEditor
  /\ calls' = [calls EXCEPT ![call] = newCall]
  /\ error' = message
  /\ UNCHANGED <<analyzer, last, popup, remote, options>>

\* ensureLoaded of mount: the answer to getPage.
MountLoaded ==
  /\ calls["mount"].pc = "loading"
  /\ Proceeds("mount", Loaded(editor, content),
              [calls["mount"] EXCEPT !.pc = "done"], error)
  /\ UNCHANGED <<content, writes, cache, sent, answer>>

\* actionAdd after ensureLoaded, up to the storage get it awaits.
AddProceeds(call, state) ==
  /\ \E title \in LiveEditTitles, container \in LiveEditContainers :
       \E outcome \in {AddSnippet(state, title, "accent-blue", container, ClickTime(call))} :
         Proceeds(call, outcome.editor,
                  [calls[call] EXCEPT !.pc = IF outcome.message = "" THEN "reading"
                                             ELSE "failed",
                                      !.container = container],
                  IF outcome.message = "" THEN error ELSE outcome.message)
  /\ UNCHANGED <<content, writes, cache, sent, answer>>

\* actionAdd: the click; ensureLoaded returns at once when a page is loaded.
AddClick(call) ==
  /\ calls[call].pc = "idle"
  /\ IF editor.loaded
     THEN AddProceeds(call, editor)
     ELSE /\ Proceeds(call, editor, [calls[call] EXCEPT !.pc = "loading"],
                      error)
          /\ UNCHANGED <<content, writes, cache, sent, answer>>

\* actionAdd: the answer to the getPage of its ensureLoaded.
AddLoaded(call) ==
  /\ calls[call].pc = "loading"
  /\ AddProceeds(call, Loaded(editor, content))

\* actionAdd: the answer of chrome.storage.sync.get(['categories']).
AddRead(call) ==
  /\ calls[call].pc = "reading"
  /\ Proceeds(call, editor,
              [calls[call] EXCEPT !.pc = "writing", !.categories = cache.categories],
              error)
  /\ UNCHANGED <<content, writes, cache, sent, answer>>

\* actionAdd: the answer of chrome.storage.sync.set({ categories }).
AddWritten(call) ==
  /\ calls[call].pc = "writing"
  /\ \E title \in LiveEditTitles :
       \E section \in {buildSectionHTML(title, "accent-blue", ClickTime(call))} :
         cache' = [cache EXCEPT
                     !.categories =
                       Append(calls[call].categories,
                              LiveEditCategory(section.categoryKey, title, "accent-blue",
                                               calls[call].container))]
  /\ Proceeds(call, editor, [calls[call] EXCEPT !.pc = "done"], error)
  /\ UNCHANGED <<content, writes, sent, answer>>

\* actionSave: the click.
SaveClick ==
  /\ calls["save"].pc = "idle"
  /\ Proceeds("save", editor,
              [calls["save"] EXCEPT !.pc = IF editor.loaded THEN "settings" ELSE "loading"],
              error)
  /\ UNCHANGED <<content, writes, cache, sent, answer>>

\* actionSave: the answer to the getPage of its ensureLoaded.
SaveLoaded ==
  /\ calls["save"].pc = "loading"
  /\ Proceeds("save", Loaded(editor, content),
              [calls["save"] EXCEPT !.pc = "settings"], error)
  /\ UNCHANGED <<content, writes, cache, sent, answer>>

\* actionSave: getSettings answered; updateWikiPage takes working as it is
\* now and sends the mutation.
SaveSends ==
  /\ calls["save"].pc = "settings"
  /\ Proceeds("save", editor,
              [calls["save"] EXCEPT !.pc = "updating", !.sent = editor.working], error)
  /\ UNCHANGED <<content, writes, cache, sent, answer>>

\* actionSave: the answer to the update mutation.
SaveUpdated ==
  /\ calls["save"].pc = "updating"
  /\ \E response \in CacheResponses :
       \E update \in {LiveEditUpdate(calls["save"].sent, response)} :
         /\ content' = IF update.applied
                       THEN PageAfterUpdate(content, update.variables.content)
                       ELSE content
         /\ writes' = IF update.applied THEN Append(writes, 0) ELSE writes
         /\ sent' = update.variables
         /\ answer' = update.answer
         /\ Proceeds("save", editor,
                     [calls["save"] EXCEPT !.pc = IF update.raised THEN "failed"
                                                  ELSE "verifying"],
                     IF update.raised THEN Shown(update) ELSE error)
  /\ UNCHANGED cache

\* actionSave: the answer to the getPage of the verification.
SaveVerified ==
  /\ calls["save"].pc = "verifying"
  /\ IF Verified(content, editor)
     THEN Proceeds("save", Unloaded(editor),
                   [calls["save"] EXCEPT !.pc = "done"], error)
     ELSE Proceeds("save", editor, [calls["save"] EXCEPT !.pc = "failed"],
                   "Server did not accept the block. Check network tab for details.")
  /\ UNCHANGED <<content, writes, cache, sent, answer>>

NextLive ==
  \/ MountLoaded
  \/ \E call \in {"add1", "add2"} :
       \/ AddClick(call)
       \/ AddLoaded(call)
       \/ AddRead(call)
       \/ AddWritten(call)
  \/ SaveClick
  \/ SaveLoaded
  \/ SaveSends
  \/ SaveUpdated
  \/ SaveVerified

SpecLive == InitLive /\ [][NextLive]_vars

\* ------------------------------------------------------------------------
\* A category of the live editor under the popup
\* ------------------------------------------------------------------------
\* The functions of the live editor put a category into a Document; the
\* content manager of the popup then adds links to that Document.

\* The titles typed into the overlay; the empty field gives "New Category".
SnippetTitles == {"News", "Dev-Ops", "Über uns", "New Category"}

\* Two of the values of the select #le-accent.
SnippetAccents == {"accent-blue", "accent-orange"}

\* A page built by the popup with the two containers the overlay knows, each
\* with a category.
SnippetDoc ==
  LET development  == addContainer(NewManager(EmptyDoc), "development", "Development", 2)
      dev          == addCategory(NewManager(development.content),
                        CategoryInput([name |-> "Dev", description |-> "d",
                                       layout |-> "large", accent |-> "blue"], "development"))
      productivity == addContainer(NewManager(dev.content), "productivity", "Productivity", 2)
  IN  addCategory(NewManager(productivity.content),
        CategoryInput([name |-> "Office", description |-> "o",
                       layout |-> "compact", accent |-> "teal"], "productivity")).content

InitSnippet ==
  /\ content \in {SnippetDoc, generateDemoTemplate}
  /\ analyzer = content
  /\ error = ""
  /\ last = [op |-> "new", arg |-> ""]
  /\ popup = [p \in Popups |-> Idle]
  /\ writes = <<>>
  /\ InitGateway

\* live_edit.js buildSectionHTML and insertBeforeMarker, as actionAdd calls
\* them, on the Document: the Document with the section in front of the end
\* marker of the container.
InsertBeforeMarker ==
  /\ last.op = "new"
  /\ \E title \in SnippetTitles, accent \in SnippetAccents,
        container \in LiveEditContainers, timestamp \in Timestamps :
       \E section \in {buildSectionHTML(title, accent, timestamp)} :
         \E next \in {insertBeforeMarker(content, MARKERS(container), section.html)} :
           /\ content' = IF next = Null THEN content ELSE next[1]
           /\ analyzer' = content'
           /\ error' = IF next = Null THEN "Marker not found: " \o MARKERS(container)
                        ELSE ""
           /\ last' = [op |-> "insertBeforeMarker",
                       arg |-> [key |-> section.categoryKey, accent |-> accent,
                                container |-> container]]
  /\ UNCHANGED <<popup, writes, gateway>>

\* The keys of the categories extractCategories finds in a Document.
OfferedKeys(doc) ==
  LET categories == extractCategories(doc)
  IN  {categories[i].key : i \in 1..Len(categories)}

\* WikiContentManager.addLinkToCategory on a category of the Document.
SnippetLinked ==
  /\ error = ""
  /\ last.op # "new"
  /\ LinkCount(content) < MaxLinks
  /\ \E tabInfo \in Tabs, categoryKey \in OfferedKeys(content) :
       Becomes(addLinkToCategory(NewManager(content), tabInfo, categoryKey),
               "addLinkToCategory", [tab |-> tabInfo, key |-> categoryKey])

NextSnippet ==
  \/ InsertBeforeMarker
  \/ SnippetLinked

SpecSnippet == InitSnippet /\ [][NextSnippet]_vars

\* ------------------------------------------------------------------------
\* Properties
\* ------------------------------------------------------------------------
\* A step is the operation named by last', called with last'.arg on the
\* Document content; content' and error' are its outcome.

\* C1: addContainer(k, name, columns) on a Document in which containerExists(k)
\* is false succeeds, and containerExists(k) is true on the resulting Document.
C1_AddContainerThenExists ==
  [][(last'.op = "addContainer" /\ ~containerExists(content, last'.arg.key))
       => (error' = "" /\ containerExists(content', last'.arg.key))]_vars

\* C1 happens: a container with an underscore in its key was added to a page
\* that already held another container.
C1_Witness ==
  /\ last.op = "addContainer"
  /\ last.arg.key = "my_box"
  /\ error = ""
  /\ containerExists(content, "my_box")
  /\ containerExists(content, "p")

\* C2: addContainer(k, ...) on a Document that already holds a container with
\* key k fails with the duplicate-key error and leaves the Document unchanged,
\* whatever name and column count are passed.
C2_DuplicateContainerFails ==
  [][(last'.op = "addContainer" /\ containerExists(content, last'.arg.key))
       => (/\ error' = "Container '" \o last'.arg.key \o "' already exists"
           /\ content' = content)]_vars

\* C2 happens: the two-column container "p" is on the page and addContainer was
\* called for the same key with another name and three columns.
C2_Witness ==
  /\ last.op = "addContainer"
  /\ last.arg = [key |-> "p", name |-> "p", columns |-> 3]
  /\ error = "Container 'p' already exists"
  /\ includes(content, "layout-2col\" id=\"p-container\"")

\* The message of the missing-container error of addCategory.
MissingContainerMessage(containerKey) ==
  "Container '" \o containerKey \o "' does not exist. Create the container first."

\* C3, as stated: addCategory(category) on a Document without a container
\* category.containerKey fails with the missing-container error and leaves the
\* Document unchanged.
C3_MissingContainerAsStated ==
  [][(last'.op = "addCategory" /\ ~containerExists(content, last'.arg.containerKey))
       => (/\ error' = MissingContainerMessage(last'.arg.containerKey)
           /\ content' = content)]_vars

\* C3, amended: addCategory(category) on a Document without a container
\* category.containerKey fails and leaves the Document unchanged; the error is
\* the missing-container error when no category with category.key is on the
\* page, and the duplicate-category error when there is one.
C3_MissingContainerFails ==
  [][(last'.op = "addCategory" /\ ~containerExists(content, last'.arg.containerKey))
       => (/\ content' = content
           /\ error' = IF categoryExists(content, last'.arg.key)
                       THEN "Category '" \o last'.arg.key \o "' already exists"
                       ELSE MissingContainerMessage(last'.arg.containerKey))]_vars

\* C3 happens: a new category was sent to a container that is not on a page
\* that holds other containers.
C3_Witness ==
  /\ last.op = "addCategory"
  /\ last.arg.containerKey = "nope"
  /\ error = MissingContainerMessage("nope")
  /\ ~categoryExists(content, last.arg.key)
  /\ containerExists(content, "p")

\* C4: after a successful addCategory(c) the Document satisfies
\* categoryExists(c.key) and findContainerForCategory(c.key) = c.containerKey,
\* also for container keys with an underscore and whatever containers precede
\* or follow the owning one.
C4_CategoryLandsInItsContainer ==
  (last.op = "addCategory" /\ error = "")
    => (/\ categoryExists(content, last.arg.key)
        /\ findContainerForCategory(content, last.arg.key) = last.arg.containerKey)

\* C5: what the templates rendered is what the analyzer returns: after a
\* successful addContainer the container's key and columns, after a successful
\* addCategory the category's key, layout, accent, name and description.
C5_RoundTrip ==
  /\ (last.op = "addContainer" /\ error = "")
       => \E n \in DOMAIN extractContainers(content) :
            /\ extractContainers(content)[n].key = last.arg.key
            /\ extractContainers(content)[n].columns = last.arg.columns
  /\ (last.op = "addCategory" /\ error = "")
       => \E n \in DOMAIN extractCategories(content) :
            LET c == extractCategories(content)[n]
            IN  /\ c.key = last.arg.key
                /\ c.layout = last.arg.layout
                /\ c.accent = last.arg.accent
                /\ c.name = last.arg.name
                /\ c.description = last.arg.description

\* The end-of-links marker a category key owns, as the category template
\* writes it.
OwnMarker(categoryKey) == "<!-- " \o toUpperCase(categoryKey) \o "_LINKS_END -->"

\* C6: a successful addLinkToCategory(tabInfo, k) puts the link fragment
\* directly before the end-of-links marker of k and before no other category's
\* marker: the Document up to the fragment and from k's marker on is as before,
\* and the fragment is the link card and holds no marker; also when one key is
\* a prefix of another and in either order of the sections.
C6_LinkBeforeOwnMarker ==
  [][(last'.op = "addLinkToCategory" /\ error' = "")
       => \A k \in {last'.arg.key}, url \in {last'.arg.tab.url}, after \in {content'} :
            LET at       == indexOf(after, OwnMarker(k))
                added    == Len(after) - Len(content)
                fragment == substring(after, at - added, at)
            IN  /\ added > 0
                /\ at - added >= 0
                /\ substring(after, 0, at - added) = substring(content, 0, at - added)
                /\ substringFrom(after, at) = substringFrom(content, at - added)
                /\ startsWithAt(content, OwnMarker(k), at - added)
                /\ includes(fragment, "href=\"" \o url \o "\"")
                /\ ~includes(fragment, "_LINKS_END -->")
                /\ \A j \in LinkTargets \ {k} :
                     Cardinality(Occurrences(after, OwnMarker(j)))
                       = Cardinality(Occurrences(content, OwnMarker(j)))]_vars

\* C6 happens: the section of "dev_tools" stands before the section of "dev",
\* and a link was added to "dev": it is behind the marker of "dev_tools".
C6_Witness ==
  /\ last.op = "addLinkToCategory"
  /\ last.arg.key = "dev"
  /\ error = ""
  /\ indexOf(content, "id=\"dev_tools-section\"") # -1
  /\ indexOf(content, "id=\"dev_tools-section\"") < indexOf(content, "id=\"dev-section\"")
  /\ indexOf(content, OwnMarker("dev_tools")) < indexOf(content, "<a class=\"")
  /\ indexOf(content, "<a class=\"") < indexOf(content, OwnMarker("dev"))

\* C7: removeAllLinks is idempotent: on the Document removeAllLinks produced,
\* removeAllLinks changes nothing.
C7_RemoveAllLinksIdempotent ==
  (last.op = "removeAllLinks")
    => removeAllLinks(NewManager(content)).content = content

\* What C8 compares of a category.
Structure(category) ==
  [key |-> category.key, layout |-> category.layout, accent |-> category.accent,
   name |-> category.name, description |-> category.description]

\* C8: removeAllLinks keeps the page structure: the containers and the
\* categories (keys, layouts, accents, names, descriptions) the analyzer derives
\* after it are, in order, those it derived before it.
C8_RemoveAllLinksKeepsStructure ==
  [][(last'.op = "removeAllLinks")
       => \A after \in {content'} :
            /\ extractContainers(after) = extractContainers(content)
            /\ Len(extractCategories(after)) = Len(extractCategories(content))
            /\ \A n \in DOMAIN extractCategories(content) :
                 Structure(extractCategories(after)[n])
                   = Structure(extractCategories(content)[n])]_vars

\* The CONTENT_END marker of a container key, as the container template writes
\* it.
ContentEndMarker(containerKey) ==
  "<!-- CONTAINER_" \o toUpperCase(containerKey) \o "_CONTENT_END -->"

\* C10: addCategory fails when the category key is on the page or when the
\* container id is on the page without its CONTENT_END marker; addLinkToCategory
\* fails when the category is not on the page, is not among the categories
\* extractCategories derives, or has no end-of-links marker; and every failing
\* addCategory or addLinkToCategory leaves the Document as it was.
C10_FailuresLeaveDocument ==
  [][/\ (last'.op \in {"addCategory", "addLinkToCategory"} /\ error' # "")
          => content' = content
     /\ (last'.op = "addCategory")
          => \A c \in {last'.arg} :
               (\/ categoryExists(content, c.key)
                \/ /\ containerExists(content, c.containerKey)
                   /\ ~includes(content, ContentEndMarker(c.containerKey)))
                 => error' # ""
     /\ (last'.op = "addLinkToCategory")
          => \A k \in {last'.arg.key} :
               (\/ ~categoryExists(content, k)
                \/ \A n \in DOMAIN extractCategories(content) :
                     extractCategories(content)[n].key # k
                \/ ~includes(content, OwnMarker(k)))
                 => error' # ""]_vars

\* C10 happens: the container id of "p" is on the page, its CONTENT_END marker
\* is not, and addCategory into "p" failed on the marker.
C10_Witness ==
  /\ last.op = "addCategory"
  /\ last.arg.containerKey = "p"
  /\ error = "Container content marker for 'p' not found"
  /\ containerExists(content, "p")
  /\ content = HandEditedDoc

\* The text by which the link card of a popup's tab is found on a page.
CardOf(p) == "href=\"" \o RaceTab(p).url \o "\""

\* C9: when both popups loaded the page before either update was applied, both
\* updates are applied and answered as succeeded, no popup reports an error,
\* and the page then is what the later writer sent: it holds the later writer's
\* link card and not the earlier writer's.
C9_LaterWriterWins ==
  \A p, q \in Popups :
    (/\ writes = <<p, q>>
     /\ popup[p].seen = 0
     /\ popup[q].seen = 0)
      => (/\ popup[p].pc = "done" /\ popup[p].failure = ""
          /\ popup[q].pc = "done" /\ popup[q].failure = ""
          /\ content = popup[q].newContent
          /\ includes(content, CardOf(q))
          /\ ~includes(content, CardOf(p))
          /\ includes(popup[p].newContent, CardOf(p)))

\* C9 happens: popup 2 wrote first, popup 1 wrote last, both had loaded the
\* page before either update; the page holds one card and the card of popup 2
\* is gone.
C9_Witness ==
  /\ writes = <<2, 1>>
  /\ popup[1].seen = 0
  /\ popup[2].seen = 0
  /\ popup[1].pc = "done"
  /\ popup[2].pc = "done"
  /\ includes(popup[2].newContent, CardOf(2))
  /\ ~includes(content, CardOf(2))
  /\ LinkCount(content) = 1

\* The values of the href attributes in s from position from on, in order.
RECURSIVE HrefsFrom(_, _)
HrefsFrom(s, from) ==
  LET at == indexOfFrom(s, "href=\"", from)
      to == indexOfFrom(s, "\"", at + Len("href=\""))
  IN  IF at = -1 \/ to = -1 THEN <<>>
      ELSE <<substring(s, at + Len("href=\""), to)>> \o HrefsFrom(s, to)

\* The link area of a category: from its section id to its end-of-links marker.
LinkArea(doc, categoryKey) ==
  substring(doc, indexOf(doc, "id=\"" \o categoryKey \o "-section\""),
            indexOf(doc, OwnMarker(categoryKey)))

\* The pages linked in a category, in the order they stand in its link area.
LinkedUrls(doc, categoryKey) == HrefsFrom(LinkArea(doc, categoryKey), 0)

\* C11: a successful addLinkToCategory(tabInfo, k) appends: the links of k are
\* the links it held before, in their order, followed by the new one, and
\* between the new link and the end-of-links marker of k stands white space
\* only; so after any sequence of additions the links stand oldest first.
C11_LinksInInsertionOrder ==
  [][(last'.op = "addLinkToCategory" /\ error' = "")
       => \A k \in {last'.arg.key}, url \in {last'.arg.tab.url}, after \in {content'} :
            /\ LinkedUrls(after, k) = Append(LinkedUrls(content, k), url)
            /\ trim(substringFrom(LinkArea(after, k),
                                  lastIndexOf(LinkArea(after, k), "</a>") + Len("</a>"))) = ""]_vars

\* C11 happens: three different pages were linked in "dev", the last one added
\* stands last.
C11_Witness ==
  /\ last.op = "addLinkToCategory"
  /\ last.arg.key = "dev"
  /\ error = ""
  /\ LinkedUrls(content, "dev") = <<"https://b.io/", "https://a.io/x?q=1", "https://c.io/">>
  /\ last.arg.tab.url = "https://c.io/"

\* The layout extractCategories derives for the first category with this key.
DerivedLayout(doc, categoryKey) ==
  extractCategories(doc)[FindCategory(extractCategories(doc), categoryKey)].layout

\* C12: the link fragment a successful addLinkToCategory(tabInfo, k) inserts is
\* rendered in the layout the analyzer derives from the markup of k: in a large
\* category it holds the favicon image and the preview-screenshot image, in a
\* compact category neither the linkcard class nor the large-preview block, in
\* a cards category the linkcard class.
C12_LinkInCategoryLayout ==
  [][(last'.op = "addLinkToCategory" /\ error' = "")
       => \A k \in {last'.arg.key}, tab \in {last'.arg.tab}, after \in {content'} :
            LET at       == indexOf(after, OwnMarker(k))
                fragment == substring(after, at - (Len(after) - Len(content)), at)
                layout   == DerivedLayout(content, k)
            IN  /\ layout = "large"
                     => /\ includes(fragment, "<img src=\"" \o tab.iconUrl \o "\"")
                        /\ includes(fragment, "class=\"large-screenshot\"")
                        /\ includes(fragment, "<div class=\"large-preview\">")
                /\ layout = "compact"
                     => /\ includes(fragment, "class=\"compact-link\"")
                        /\ ~includes(fragment, "linkcard")
                        /\ ~includes(fragment, "large-preview")
                /\ layout = "cards"
                     => includes(fragment, "class=\"linkcard\"")]_vars

\* C12 happens: a link was added to a category created with the large layout,
\* and the page holds its preview-screenshot image.
C12_Witness ==
  /\ last.op = "addLinkToCategory"
  /\ error = ""
  /\ DerivedLayout(content, last.arg.key) = "large"
  /\ includes(content, "class=\"large-screenshot\"")
  /\ includes(content, "class=\"large-icon\"")

\* The keys of a sequence of containers or categories, in order.
KeysOf(entries) == [n \in DOMAIN entries |-> entries[n].key]

\* No value stands twice in the sequence.
Distinct(seq) == \A m, n \in DOMAIN seq : m # n => seq[m] # seq[n]

\* C13: on every page reached from a page with pairwise distinct container keys
\* and pairwise distinct category keys, by operations that succeeded or failed,
\* no two containers share a key and no two categories share a key: neither
\* among the ids written on the page nor among those the analyzer derives (a
\* failed operation left the page it was called on, where the analyzer was
\* asked already).
C13_KeysUnique ==
  /\ \A k \in ContainerKeys :
       Cardinality(Occurrences(content, "id=\"" \o k \o "-container\"")) <= 1
  /\ \A k \in LinkTargets :
       Cardinality(Occurrences(content, "id=\"" \o k \o "-section\"")) <= 1
  /\ error = ""
       => /\ Distinct(KeysOf(extractContainers(content)))
          /\ Distinct(KeysOf(extractCategories(content)))

\* C13 happens: the page holds two containers and two categories, and a second
\* category with the key "dev_tools" was refused.
C13_Witness ==
  /\ last.op = "addCategory"
  /\ error = "Category 'dev_tools' already exists"
  /\ Len(extractContainers(content)) = 2
  /\ Len(extractCategories(content)) = 2
  /\ containerExists(content, last.arg.containerKey)

\* The opening tag of the link list a layout family uses.
WrapperOf(layout) ==
  "<div class=\"" \o (IF layout = "compact" THEN "compact-links"
                      ELSE IF layout = "large" THEN "large-links" ELSE "links") \o "\">"

\* removeAllLinks has nothing to cut for this category: its end-of-links marker
\* is not on the page, or no wrapper of its layout family opens before it.
NothingToCut(doc, category) ==
  \/ ~includes(doc, OwnMarker(category.key))
  \/ ~includes(substring(doc, 0, indexOf(doc, OwnMarker(category.key))),
               WrapperOf(category.layout))

\* The text of a category's section, from its id to the end of the section.
SectionText(doc, categoryKey) ==
  LET from == indexOf(doc, "id=\"" \o categoryKey \o "-section\"")
      to   == indexOfFrom(doc, "</section>", from)
  IN  IF to = -1 THEN substringFrom(doc, from) ELSE substring(doc, from, to)

\* The link cards in the section of a category; none when the page has no
\* such section.
LinksInSection(doc, categoryKey) ==
  IF ~includes(doc, "id=\"" \o categoryKey \o "-section\"") THEN 0
  ELSE LinkCount(SectionText(doc, categoryKey))

\* C14: removeAllLinks throws nothing; a derivable category it has nothing to
\* cut for (its end-of-links marker or the wrapper of its layout is not found)
\* keeps the text of its section, and every other derivable category holds no
\* link in its section afterwards.
C14_RemoveAllLinksBestEffort ==
  [][(last'.op = "removeAllLinks")
       => \A after \in {content'} :
            /\ error' = ""
            /\ \A n \in DOMAIN extractCategories(content) :
                 LET c == extractCategories(content)[n]
                 IN  IF NothingToCut(content, c)
                     THEN SectionText(after, c.key) = SectionText(content, c.key)
                     ELSE LinksInSection(after, c.key) = 0]_vars

\* The names of the tags a loaded page carries, in their order.
StoredTagNames(tags) ==
  IF tags.isArray
  THEN [n \in DOMAIN tags.items |->
          IF tags.items[n].type = "object" THEN tags.items[n].tag ELSE tags.items[n].text]
  ELSE <<>>

\* C15: a successful page update replaces only the content: the title,
\* locale, path, isPublished, isPrivate and tag list sent in the mutation are
\* those of the page as it was loaded, whatever they are (unpublished, empty
\* title, no tags), in every implementation of updateWikiPage.
C15_UpdateKeepsMetadata ==
  (last.op = "updateWikiPage" /\ error = "")
    => /\ sent.content = content
       /\ sent.id = remote.id
       /\ Some(sent.title) = remote.title
       /\ Some(sent.locale) = remote.locale
       /\ Some(sent.path) = remote.path
       /\ sent.isPublished = remote.isPublished
       /\ Some(sent.isPrivate) = remote.isPrivate
       /\ sent.tags = StoredTagNames(remote.tags)

\* The popup has updated an unpublished page with an empty title and no tags.
C15_Witness ==
  /\ last.op = "updateWikiPage"
  /\ last.arg = "popup"
  /\ error = ""
  /\ content = "<br/>"
  /\ remote.isPublished = Some(FALSE)
  /\ remote.title = Some("")
  /\ remote.tags = TagList(<<>>)
  /\ sent.isPublished = Some(FALSE)

\* C20: the tag list of every update mutation that is sent is a list of
\* strings: a loaded tag object that carries a tag is sent as that tag, a
\* plain string as itself, and a page without a tag array sends the empty
\* list.
C20_TagsSentAsStrings ==
  (last.op = "updateWikiPage" /\ answer.transport # "")
    => IF ~remote.tags.isArray THEN sent.tags = <<>>
       ELSE /\ Len(sent.tags) = Len(remote.tags.items)
            /\ \A n \in DOMAIN remote.tags.items :
                 LET tag == remote.tags.items[n]
                 IN  /\ sent.tags[n] \in STRING
                     /\ (tag.type = "object" /\ tag.tag # "") => sent.tags[n] = tag.tag
                     /\ tag.type = "string" => sent.tags[n] = tag.text

\* An update was sent for a page with a tag object and a plain string tag.
C20_Witness ==
  /\ last.op = "updateWikiPage"
  /\ answer.transport # ""
  /\ remote.tags = TagList(<<TagObject("wiki"), TagText("plain")>>)
  /\ sent.tags = <<"wiki", "plain">>

\* C19: a transport gives response data to its caller only when the status is
\* 2xx, the body parses as JSON and the body carries no GraphQL errors; every
\* other answer is raised as an Error, by executeGraphQL and by gql alike.
C19_TransportRaisesFailures ==
  (last.op = "updateWikiPage" /\ answer.transport # "" /\ ~answer.result.raised)
    => /\ answer.response.status \in 200..299
       /\ answer.response.parses
       /\ ~(answer.response.errors.present /\ answer.response.errors.isArray
             /\ answer.response.errors.messages # <<>>)

\* The keys the analyzer derives from a page.
DerivedContainerKeys(page) ==
  {extractContainers(page)[n].key : n \in DOMAIN extractContainers(page)}

DerivedCategoryKeys(page) ==
  {extractCategories(page)[n].key : n \in DOMAIN extractCategories(page)}

\* C16: after every completed user action (no handler is under way, and the
\* options page has imported no configuration) each container key and
\* category key in the cache is one the analyzer derives from the page as the
\* wiki holds it.
C16_CacheDerivable ==
  (options.clicks = 0 /\ \A p \in Popups : popup[p].pc = "idle")
    => /\ \A n \in DOMAIN cache.containers :
            cache.containers[n].key \in DerivedContainerKeys(content)
       /\ \A n \in DOMAIN cache.categories :
            cache.categories[n].key \in DerivedCategoryKeys(content)

\* The messages with which createNewContainer turns a container down.
Rejections(key) ==
  {"A container with this name already exists.",
   "Container '" \o key \o "' already exists"}

\* C17: createNewContainer turns a new container down exactly when the
\* analyzer derives its key from the page as the wiki holds it (the page the
\* handler loaded, or the page at the click when the handler loaded none),
\* whatever the cache lists; for a container of the page the handler sends no
\* update.
C17_CreationDependsOnDocument ==
  [][\A p \in Popups :
       /\ (/\ popup[p].pc = "idle" /\ popup'[p].pc = "idle"
           /\ popup'[p].clicks > popup[p].clicks
           /\ last'.op = "createNewContainer")
            => \A key \in {last'.arg.key}, message \in {error'} :
                 (message \in Rejections(key)) <=> (key \in DerivedContainerKeys(content))
       /\ (/\ popup[p].op = "createNewContainer"
           /\ popup[p].pc # "idle" /\ popup'[p].pc = "idle")
            => \A key \in {popup[p].arg.key}, message \in {error'} :
                 /\ (message \in Rejections(key))
                      <=> (key \in DerivedContainerKeys(popup[p].loaded))
                 /\ key \in DerivedContainerKeys(popup[p].loaded)
                      => popup[p].pc = "categories"]_vars

\* The update mutation was answered and the answer does not say succeeded.
Refused(request) ==
  /\ request.transport # ""
  /\ ~request.result.raised
  /\ request.result.data.responseResult # Null
  /\ ~request.result.data.responseResult[1].succeeded

\* C18: when the answer to the update mutation of a handler does not say
\* succeeded, the handler logs the error with the message of the answer and
\* ends there, addCard after its clipboard fallback; the page and the stored
\* lists stay as they were, in the fallback too, so the cache is not extended
\* with the container or category that was to be created, nor with the demo
\* lists.
C18_RefusedUpdateFails ==
  [][\A p \in Popups :
       /\ (popup[p].pc = "updating" /\ popup'[p].pc # "updating" /\ Refused(answer'))
            => \A request \in {answer'} :
                 /\ error' = "Wiki Update Error: "
                                \o request.result.data.responseResult[1].message
                 /\ last'.op = popup[p].op
                 /\ popup'[p].pc = IF popup[p].op = "addCard" THEN "fallback" ELSE "idle"
                 /\ content' = content
                 /\ cache' = cache
       /\ (popup[p].pc \in {"fallback", "clipboard"} /\ popup'[p].pc # popup[p].pc)
            => /\ popup'[p].pc \in {"clipboard", "idle"}
               /\ content' = content
               /\ cache' = cache]_vars

\* The wiki has refused the update of createNewContainer or createNewCategory
\* and the handler has logged the wiki's message.
C18_Witness ==
  /\ last.op \in {"createNewContainer", "createNewCategory"}
  /\ Refused(answer)
  /\ error = "Wiki Update Error: You are not authorized to update this page."
  /\ \A n \in DOMAIN cache.containers : cache.containers[n].key # last.arg.key
  /\ \A n \in DOMAIN cache.categories : cache.categories[n].key # last.arg.key

\* C21: after every successful WikiContentManager operation (addContainer,
\* addCategory, addLinkToCategory, removeAllLinks) the bound analyzer has been
\* built from the manager's content: analyzer.content = this.content.
C21_AnalyzerRebuilt ==
  (error = "" /\ last.op \in {"addContainer", "addCategory", "addLinkToCategory",
                              "removeAllLinks"})
    => analyzer = content

\* C22: once addCategory(c) has succeeded, whatever the spelling of c.accent,
\* extractCategories on the resulting Document has an entry with key c.key,
\* and an addLinkToCategory(tabInfo, c.key) that follows succeeds.
C22_AccentedCategoryTakesLinks ==
  [][/\ (last'.op = "addCategory" /\ error' = "")
          => \A doc \in {content'}, key \in {last'.arg.key} :
               FindCategory(extractCategories(doc), key) # 0
     /\ (/\ last.op = "addCategory" /\ error = ""
         /\ last'.op = "addLinkToCategory" /\ last'.arg.key = last.arg.key)
          => error' = ""]_vars

\* The CONTENT_START marker of a container key, as the container template
\* writes it.
ContentStartMarker(containerKey) ==
  "<!-- CONTAINER_" \o toUpperCase(containerKey) \o "_CONTENT_START -->"

\* The text strictly between the CONTENT_START and the first CONTENT_END marker
\* of a container, "" when the page has no CONTENT_START marker for it.
ContentRegion(doc, containerKey) ==
  LET startPos == indexOf(doc, ContentStartMarker(containerKey))
      endPos   == indexOf(doc, ContentEndMarker(containerKey))
  IN  IF startPos = -1 \/ endPos < startPos THEN ""
      ELSE SubSeq(doc, startPos + Len(ContentStartMarker(containerKey)) + 1, endPos)

\* C23: a successful addCategory inserts one span right before the first
\* CONTENT_END marker of its container and changes nothing else: the text before
\* the marker and the text from the marker on are kept as they were; the span is
\* the rendered category followed by newline + two blanks, with newline + two
\* blanks in front of it exactly when the text between the container's START
\* and END markers is not blank.
C23_AddCategoryInsertsOneSpan ==
  [][(last'.op = "addCategory" /\ error' = "")
       => \A category \in {last'.arg}, after \in {content'} :
            \A pos \in {indexOf(content, ContentEndMarker(category.containerKey))},
               region \in {ContentRegion(content, category.containerKey)} :
              /\ pos # -1
              /\ Len(after) >= Len(content)
              /\ SubSeq(after, 1, pos) = SubSeq(content, 1, pos)
              /\ SubSeq(after, pos + 1 + Len(after) - Len(content), Len(after))
                   = SubSeq(content, pos + 1, Len(content))
              /\ SubSeq(after, pos + 1, pos + Len(after) - Len(content))
                   = (IF trim(region) # "" THEN "\n  " ELSE "")
                       \o TemplateCategory(category, category.layout) \o "\n  "]_vars

\* A second category has been added to a container that held one: the one
\* case with the separator in front.
C23_Witness ==
  /\ last.op = "addCategory"
  /\ error = ""
  /\ trim(ContentRegion(content, last.arg.containerKey)) # ""
  /\ Cardinality(Occurrences(content, "<section class=")) = 2

\* C24: a successful addContainer keeps the Document as a prefix of the result
\* and ends it with the rendered container block; on the empty Document the
\* result is the rendered block and nothing in front of it.
C24_AddContainerAppends ==
  [][(last'.op = "addContainer" /\ error' = "")
       => \A key \in {last'.arg.key}, columns \in {last'.arg.columns}, after \in {content'} :
            \A block \in {TemplateContainer(key, columns)} :
              /\ SubSeq(after, 1, Len(content)) = content
              /\ endsWith(after, block)
              /\ content = "" => after = block]_vars

\* What the analyzer and the editor go by on a page: marker comments, the id
\* tokens of sections and containers, section tags, and the two characters no
\* tag and no attribute can do without.
StructureTokens == {"<!--", "-section\"", "-container\"", "<section", "<", "\""}

\* How often a token stands on a page.
TokenCount(doc, token) == Cardinality(Occurrences(doc, token))

\* Two pages have the same structure tokens and give the analyzer the same
\* container and category keys.
SameStructure(doc, other) ==
  /\ \A token \in StructureTokens : TokenCount(doc, token) = TokenCount(other, token)
  /\ KeysOf(extractCategories(doc)) = KeysOf(extractCategories(other))
  /\ KeysOf(extractContainers(doc)) = KeysOf(extractContainers(other))

\* C25: name, description and title are embedded in escaped form only (& < > "
\* replaced), so whatever the display text is, the rendered category and link
\* add no marker comment, no id="...-section" or id="...-container" token and no
\* section tag beyond those of the template, and the analyzer derives the same
\* keys as for a plain text.
C25_DisplayTextAddsNoStructure ==
  [][/\ (last'.op = "addCategory" /\ error' = "")
          => \A category \in {last'.arg}, after \in {content'} :
               \A plain \in {addCategory(NewManager(content),
                                         [category EXCEPT !.name = "N",
                                                          !.description = "D"]).content} :
                 /\ SameStructure(after, plain)
                 /\ includes(after, "__title\">" \o escapeHtml(category.name) \o "</div>")
                 /\ includes(after, "__meta\">" \o escapeHtml(category.description)
                                      \o "</div>")
     /\ (last'.op = "addLinkToCategory" /\ error' = "")
          => \A tab \in {last'.arg.tab}, key \in {last'.arg.key}, after \in {content'} :
               \A plain \in {addLinkToCategory(NewManager(content),
                                               [tab EXCEPT !.title = "T"], key).content} :
                 /\ SameStructure(after, plain)
                 /\ includes(after, "title\">" \o escapeHtml(tab.title) \o "</")]_vars

\* A link whose title spells an end-of-links marker has been added to a
\* category whose name spells a section tag.
C25_Witness ==
  /\ last.op = "addLinkToCategory"
  /\ error = ""
  /\ last.arg.tab.title = "<!-- DEV_LINKS_END -->"
  /\ last.arg.key
       = CategoryKeyOf("<section class=\"section-card accent-red\" id=\"evil-section\">")
  /\ LinkCount(content) = 1

\* The Document removeAllLinks makes of a Document.
WithoutLinks(doc) == removeAllLinks(NewManager(doc)).content

\* C26: removeAllLinks undoes every link insertion: after any sequence of
\* addContainer, addCategory and addLinkToCategory on the empty Document,
\* removeAllLinks yields the Document of the same sequence without its
\* addLinkToCategory operations.  Step by step along the sequence: an
\* addLinkToCategory does not change what removeAllLinks yields, an addContainer
\* or addCategory has on it the effect it has on the Document with the links,
\* and removeAllLinks itself yields it.
C26_RemoveAllLinksUndoesLinks ==
  [][\A op \in {last'.op}, arg \in {last'.arg}, outcome \in {error'} :
       \A before \in {WithoutLinks(content)}, after \in {WithoutLinks(content')} :
         /\ (op = "addLinkToCategory") => after = before
         /\ (op = "addContainer")
              => \A plain \in {addContainer(NewManager(before),
                                            arg.key, arg.name, arg.columns)} :
                   after = plain.content /\ outcome = plain.error
         /\ (op = "addCategory")
              => \A plain \in {addCategory(NewManager(before), arg)} :
                   after = plain.content /\ outcome = plain.error
         /\ (op = "removeAllLinks") => content' = before]_vars

\* Two link cards have been added to a page with two categories, and
\* removeAllLinks takes both away again.
C26_Witness ==
  /\ last.op = "addLinkToCategory"
  /\ error = ""
  /\ LinkCount(content) = 2
  /\ Len(extractCategories(content)) = 2
  /\ LinkCount(WithoutLinks(content)) = 0

\* The section ids of the snippets the clicks on "Insert Category" build.
SnippetIds ==
  {buildSectionHTML(title, "accent-blue", ClickTime(call)).id :
     title \in LiveEditTitles, call \in {"add1", "add2"}}

\* C27: a snippet that actionAdd has put into the working string stays there
\* until an actionSave whose update wrote it has completed: in every step that
\* takes a snippet out of the working string, actionSave ends after its
\* verification and the page in the wiki holds the snippet.
C27_SnippetStaysUntilSaved ==
  [][\A id \in SnippetIds :
       \A before \in {editor.working}, after \in {editor'.working} :
         (includes(before, id) /\ ~includes(after, id))
           => /\ calls["save"].pc = "verifying"
              /\ calls'["save"].pc = "done"
              /\ includes(content, id)]_vars


\* The keys buildSectionHTML gives to the categories of the live editor.
SnippetKeys ==
  {buildSectionHTML(title, "accent-blue", timestamp).categoryKey :
     title \in SnippetTitles, timestamp \in Timestamps}

\* The section of a category in a Document: from its id to the first
\* "</section>" behind it.
SectionSpan(doc, categoryKey) ==
  LET from == indexOf(doc, "id=\"" \o categoryKey \o "-section\"")
  IN  substring(doc, from, indexOfFrom(doc, "</section>", from))

\* C28: a category inserted by the live editor (buildSectionHTML and
\* insertBeforeMarker) works under the popup's engine.  On the Document with
\* the category, categoryExists finds its key, extractCategories lists it
\* with layout "cards" and the accent chosen in the overlay, and
\* findContainerForCategory gives the container chosen in the overlay; and
\* addLinkToCategory on that key succeeds and puts the link right before the
\* end-of-links marker that stands in the category's own section, leaving
\* the rest of the Document as it was.
C28_SnippetFitsThePopup ==
  [][/\ (last'.op = "insertBeforeMarker" /\ error' = "")
          => \A doc \in {content'}, key \in {last'.arg.key} :
               /\ categoryExists(doc, key)
               /\ \A categories \in {extractCategories(doc)} :
                    \A n \in {FindCategory(categories, key)} :
                      /\ n # 0
                      /\ categories[n].layout = "cards"
                      /\ "accent-" \o categories[n].accent = last'.arg.accent
                      /\ categories[n].containerKey = last'.arg.container
               /\ findContainerForCategory(doc, key) = last'.arg.container
     /\ (last'.op = "addLinkToCategory" /\ last'.arg.key \in SnippetKeys)
          => /\ error' = ""
             /\ \A key \in {last'.arg.key}, url \in {last'.arg.tab.url},
                   before \in {content}, after \in {content'} :
                  \A at \in {indexOf(before, OwnMarker(key))} :
                    \A fragment \in {substring(after, at, at + Len(after) - Len(before))} :
                      /\ at # -1
                      /\ includes(SectionSpan(before, key), OwnMarker(key))
                      /\ Cardinality(Occurrences(before, OwnMarker(key))) = 1
                      /\ after = substring(before, 0, at) \o fragment
                                   \o substringFrom(before, at)
                      /\ includes(fragment, "href=\"" \o url \o "\"")
                      /\ includes(SectionSpan(after, key), fragment \o OwnMarker(key))]_vars

\* C28 happens: the category of the live editor stands in "development" of
\* the demo page, in front of the container "productivity", and the popup
\* has added a link to it.
C28_Witness ==
  /\ error = ""
  /\ last.op = "addLinkToCategory"
  /\ last.arg.key \in SnippetKeys
  /\ includes(content, "id=\"webdev-section\"")
  /\ findContainerForCategory(content, last.arg.key) = "development"
  /\ includes(SectionSpan(content, last.arg.key), "href=\"" \o last.arg.tab.url \o "\"")


\* C29: when actionAdd of the live editor fails because the end marker of the
\* chosen container is not in the working string, nothing it does stays: the
\* working string, the loaded page, lastSnippetId and the cached list of
\* categories are what they were before the call took its step.
C29_FailedAddChangesNothing ==
  [][\A call \in {"add1", "add2"} :
       (calls[call].pc # "failed" /\ calls'[call].pc = "failed")
         => /\ editor'.working = editor.working
            /\ editor'.loaded = editor.loaded
            /\ editor'.page = editor.page
            /\ editor'.lastSnippetId = editor.lastSnippetId
            /\ cache'.categories = cache.categories]_vars


\* C30: actionSave of the live editor, once a snippet id is recorded, ends
\* without an Error (and sets loaded and working back) only when the page it
\* reads back after the update holds that id; when the page read back does
\* not hold it, actionSave throws "Server did not accept the block" and
\* leaves loaded, working and lastSnippetId as they are.
C30_SaveNeedsTheSnippet ==
  [][(calls["save"].pc = "verifying" /\ calls'["save"].pc # "verifying"
        /\ editor.lastSnippetId # Null)
       => \A held \in {includes(content, SnippetText(editor.lastSnippetId))} :
            /\ calls'["save"].pc = "done" => held
            /\ ~held => /\ calls'["save"].pc = "failed"
                        /\ includes(error', "Server did not accept the block")
                        /\ editor' = editor]_vars

====
